---------------------------- MODULE Spec2Model ----------------------------
(***************************************************************************)
(* A model of en-route, a middleware dispatcher that routes "file" records *)
(* through middleware selected by matching file.path against patterns.     *)
(*                                                                         *)
(* The module holds                                                        *)
(*   - the pattern compiler (parse / stringToRegexp) and the regex         *)
(*     execution it implies, over strings kept as sequences of characters; *)
(*   - the promise based Layer / Route / Router (Router.handle, Router.all *)
(*     in series and in parallel mode);                                    *)
(*   - the callback based router (proto.handle with next, trimPrefix and   *)
(*     processParams) with its Layer;                                      *)
(*   - the callback based Route (route.dispatch, with next and with        *)
(*     async-array-reduce) and the filter based Router (router.dispatch);  *)
(*   - Router.route and the synchronous handle and all of the promise      *)
(*     based Router;                                                       *)
(*   - Layer.match on the pattern of the blog example.                     *)
(***************************************************************************)
EXTENDS Integers, Sequences, FiniteSets, TLC

(***************************************************************************)
(* Strings.  A JavaScript string is a sequence of one-character strings.   *)
(***************************************************************************)

\* the value `undefined` where a string is expected (a capture that did not
\* take part in a match)
UNDEF == <<"<undefined>">>

\* String.prototype.substr(n) / slice(n): the suffix from 0-based offset n
Substr(s, n) == IF n >= Len(s) THEN <<>> ELSE SubSeq(s, n + 1, Len(s))

\* String.prototype.slice(a, b) with 0 <= a <= b
Slice(s, a, b) == IF b <= a THEN <<>> ELSE SubSeq(s, a + 1, IF b > Len(s) THEN Len(s) ELSE b)

\* the letters of the model that have an upper case form, and String
\* comparison under the `i` flag that pathToRegexp compiles with
UpperCase == ("B" :> "b")
Fold(c) == IF c \in DOMAIN UpperCase THEN UpperCase[c] ELSE c
FoldAll(s) == [i \in 1..Len(s) |-> Fold(s[i])]

\* a faulty variant of HasAt: the characters are not compared
HasAtLength(s, p, t) == p + Len(t) - 1 <= Len(s)

\* s starts with t at 1-based position p, letter case ignored
HasAt(s, p, t) == /\ p + Len(t) - 1 <= Len(s)
                  /\ \A i \in 1..Len(t) : Fold(s[p + i - 1]) = Fold(t[i])

\* characters matched by \w in the patterns of the model
WordChars == {"a", "b", "d", "e", "f", "g", "h", "l", "m", "n", "o", "r", "s", "t", "u", "y",
              "0", "1", "4"}

\* options.delimiters of the pattern compiler: './'
Delimiters == {".", "/"}

\* the modifiers a placeholder may carry
Modifiers == {"+", "*", "?"}

(***************************************************************************)
(* The pattern compiler.                                                   *)
(***************************************************************************)

\* a literal token of parse(): a string
StrTok(text) == [type |-> "str", text |-> text]

\* the characters escapeString puts a backslash in front of
Special == {".", "+", "*", "?", "=", "^", "!", ":", "$", "{", "}", "(", ")", "[", "]", "|", "/", "\\"}

RECURSIVE escapeString(_)
escapeString(str) ==
    IF str = <<>> THEN <<>>
    ELSE (IF Head(str) \in Special THEN <<"\\", Head(str)>> ELSE <<Head(str)>>)
         \o escapeString(Tail(str))

\* the capture sub-pattern of a placeholder without a custom pattern: [^<delimiter>]+?
DefaultPattern(delimiter) == <<"[", "^">> \o escapeString(delimiter) \o <<"]", "+", "?">>

\* escapeGroup(group): the characters = ! : $ / ( ) of a custom pattern are escaped
RECURSIVE escapeGroup(_)
escapeGroup(group) ==
    IF group = <<>> THEN <<>>
    ELSE (IF Head(group) \in {"=", "!", ":", "$", "/", "(", ")"}
          THEN <<"\\", Head(group)>> ELSE <<Head(group)>>)
         \o escapeGroup(Tail(group))

\* a placeholder token of parse(); its capture sub-pattern is the custom
\* pattern written after the name, escaped, or else the default
KeyTok(name, prev, next, modifier, custom) ==
    LET delimiter == IF prev # <<>> THEN prev ELSE <<"/">>
    IN [type      |-> "key",
        name      |-> name,
        prefix    |-> prev,
        delimiter |-> delimiter,
        optional  |-> modifier \in {"?", "*"},
        repeat    |-> modifier \in {"+", "*"},
        partial   |-> prev # <<>> /\ next # <<>> /\ next # prev,
        pattern   |-> IF custom # <<>> THEN escapeGroup(custom) ELSE DefaultPattern(delimiter)]

\* the end (inclusive) of the custom pattern "(...)" that opens at i, or 0:
\* one or more characters other than \ ( ) between the parentheses (no escape
\* is written inside the custom patterns of the model)
RECURSIVE CustomEnd(_, _, _)
CustomEnd(str, i, j) ==
    IF ~(i <= Len(str) /\ str[i] = "(") \/ j > Len(str) THEN 0
    ELSE IF str[j] = ")" THEN (IF j > i + 1 THEN j ELSE 0)
    ELSE IF str[j] \in {"\\", "("} THEN 0
    ELSE CustomEnd(str, i, j + 1)

\* the end (exclusive, 1-based) of the run of \w characters that starts at i
RECURSIVE WordEnd(_, _)
WordEnd(str, i) ==
    IF i <= Len(str) /\ str[i] \in WordChars THEN WordEnd(str, i + 1) ELSE i

\* the decimal digits of the ordinal given to an anonymous capture
Ordinal(n) == <<CASE n = 0 -> "0" [] n = 1 -> "1" [] n = 2 -> "2" [] OTHER -> "3">>

\* parse(str): scan the pattern left to right; i is the next position to read,
\* path the literal text accumulated so far, key the count of anonymous
\* captures and tokens the tokens emitted so far
RECURSIVE ParseFrom(_, _, _, _, _, _)
ParseFrom(str, i, path, pathEscaped, key, tokens) ==
    IF i > Len(str)
    THEN IF path # <<>> THEN Append(tokens, StrTok(path)) ELSE tokens
    ELSE IF str[i] = "\\" /\ i < Len(str)
    THEN \* an escaped character is literal text and marks the text escaped
         ParseFrom(str, i + 2, Append(path, str[i + 1]), TRUE, key, tokens)
    ELSE IF str[i] = ":" /\ i < Len(str) /\ str[i + 1] \in WordChars
    THEN LET w        == WordEnd(str, i + 1)
             name     == SubSeq(str, i + 1, w - 1)
             c        == CustomEnd(str, w, w + 1)
             custom   == IF c > 0 THEN SubSeq(str, w + 1, c - 1) ELSE <<>>
             e        == IF c > 0 THEN c + 1 ELSE w
             hasMod   == e <= Len(str) /\ str[e] \in Modifiers
             modifier == IF hasMod THEN str[e] ELSE ""
             index    == IF hasMod THEN e + 1 ELSE e
             next     == IF index <= Len(str) THEN <<str[index]>> ELSE <<>>
             lookback == ~pathEscaped /\ path # <<>> /\ path[Len(path)] \in Delimiters
             prev     == IF lookback THEN <<path[Len(path)]>> ELSE <<>>
             path2    == IF lookback THEN SubSeq(path, 1, Len(path) - 1) ELSE path
             tokens2  == IF path2 # <<>> THEN Append(tokens, StrTok(path2)) ELSE tokens
             escaped2 == IF path2 # <<>> THEN FALSE ELSE pathEscaped
         IN ParseFrom(str, index, <<>>, escaped2, key,
                      Append(tokens2, KeyTok(name, prev, next, modifier, custom)))
    ELSE ParseFrom(str, i + 1, Append(path, str[i]), pathEscaped, key, tokens)

parse(str) == ParseFrom(str, 1, <<>>, FALSE, 0, <<>>)

\* the tokens of a parsed pattern that are placeholders, in order: the keys
KeysOf(tokens) == SelectSeq(tokens, LAMBDA t : t.type = "key")

\* stringToRegexp(str, keys, options): the compiled pattern.  The regular
\* expression is kept as the token list together with the trailing rule that
\* `end` and `strict` select; Exec below runs it.
stringToRegexp(str, options) ==
    LET tokens == parse(str)
        last   == IF tokens = <<>> THEN StrTok(<<>>) ELSE tokens[Len(tokens)]
    IN [tokens         |-> tokens,
        keys           |-> KeysOf(tokens),
        end            |-> options.end,
        strict         |-> options.strict,
        isEndDelimited |-> /\ last.type = "str"
                           /\ last.text # <<>>
                           /\ last.text[Len(last.text)] \in Delimiters]

(***************************************************************************)
(* The source text of a compiled pattern, and its capturing groups.        *)
(***************************************************************************)

\* what one token adds to route in the loop of stringToRegexp
TokenSource(token) ==
    IF token.type = "str" THEN escapeString(token.text)
    ELSE LET prefix  == escapeString(token.prefix)
             pattern == token.pattern
             capture == IF token.repeat
                        THEN <<"(", "?", ":">> \o pattern \o <<")", "(", "?", ":">> \o prefix \o <<"(", "?", ":">> \o pattern \o <<")", ")", "*">>
                        ELSE pattern
         IN IF token.optional
            THEN IF token.partial
                 THEN prefix \o <<"(">> \o capture \o <<")", "?">>
                 ELSE <<"(", "?", ":">> \o prefix \o <<"(">> \o capture \o <<")", ")", "?">>
            ELSE prefix \o <<"(">> \o capture \o <<")">>

RECURSIVE RouteSource(_)
RouteSource(tokens) ==
    IF tokens = <<>> THEN <<>> ELSE TokenSource(Head(tokens)) \o RouteSource(Tail(tokens))

\* what stringToRegexp appends after the tokens
TrailingSource(re) ==
    IF re.end
    THEN (IF re.strict THEN <<>> ELSE <<"(", "?", ":", "\\", "/", ")", "?">>) \o <<"$">>
    ELSE (IF re.strict THEN <<>> ELSE <<"(", "?", ":", "\\", "/", "(", "?", "=", "$", ")", ")", "?">>) \o (IF re.isEndDelimited THEN <<>> ELSE <<"(", "?", "=", "\\", "/", "|", "$", ")">>)

\* the string stringToRegexp returns for the compiled pattern re
SourceOf(re) == <<"^">> \o RouteSource(re.tokens) \o TrailingSource(re)

\* regexpToRegexp counts the groups of a regex with /\((?!\?)/g: every "("
\* that no "?" follows
CountedGroups(source) ==
    Cardinality({i \in 1..Len(source) :
                    source[i] = "(" /\ ~(i < Len(source) /\ source[i + 1] = "?")})

\* the character at i is escaped: an odd number of backslashes precedes it
Escaped(source, i) ==
    Cardinality({n \in 1..(i - 1) : \A k \in (i - n)..(i - 1) : source[k] = "\\"}) % 2 = 1

\* the character at i stands inside a character class
InClass(source, i) ==
    \E j \in 1..(i - 1) :
        /\ source[j] = "[" /\ ~Escaped(source, j)
        /\ \A k \in (j + 1)..(i - 1) : ~(source[k] = "]" /\ ~Escaped(source, k))

\* the capturing groups the regex engine numbers in a source: an escaped "("
\* and a "(" inside a character class are literals, "(?:", "(?=", "(?!", "(?<="
\* and "(?<!" open no capture, "(?<name>" opens one
CapturingGroups(source) ==
    Cardinality({i \in 1..Len(source) :
        /\ source[i] = "("
        /\ ~Escaped(source, i)
        /\ ~InClass(source, i)
        /\ LET special == i < Len(source) /\ source[i + 1] = "?"
               named   == /\ special
                          /\ i + 2 < Len(source)
                          /\ source[i + 2] = "<"
                          /\ source[i + 3] \notin {"=", "!"}
           IN ~special \/ named})

\* a faulty variant of NothingToRepeat: every source is a regular expression
AnythingCompiles(source) == FALSE

\* new RegExp(source) throws a SyntaxError for a group that opens with a
\* quantifier: "(*", "(+", or "(?" not followed by one of : = ! <
NothingToRepeat(source) ==
    \E i \in 1..(Len(source) - 1) :
        /\ source[i] = "("
        /\ ~Escaped(source, i)
        /\ ~InClass(source, i)
        /\ \/ source[i + 1] \in {"*", "+"}
           \/ /\ source[i + 1] = "?"
              /\ (i + 1 = Len(source) \/ source[i + 2] \notin {":", "=", "!", "<"})

\* a pattern handed to pathToRegexp is a string, a RegExp or an array of them
StringPattern(str) == [kind |-> "string", str |-> str]
RegExpPattern(source) == [kind |-> "regexp", source |-> source]
ArrayPattern(elements) == [kind |-> "array", elements |-> elements]

\* regexpToRegexp(regex, keys): the source is returned as it is and one
\* positional key is pushed per counted group
regexpToRegexp(regex) ==
    [source |-> regex.source,
     keys   |-> [i \in 1..CountedGroups(regex.source) |-> Ordinal(i - 1)]]

\* the source of a compiled string and the names of its keys
StringSource(re) ==
    [source |-> SourceOf(re), keys |-> [i \in 1..Len(re.keys) |-> re.keys[i].name]]

\* toRegexpSource(val, keys, options) of a string or a RegExp: the source and
\* the names of the keys pushed
ElementSource(val, options) ==
    IF val.kind = "regexp" THEN regexpToRegexp(val)
    ELSE StringSource(stringToRegexp(val.str, options))

\* one part joined by '|' to the n parts after it
Joined(first, rest) ==
    [source |-> first.source \o (IF rest.n > 0 THEN <<"|">> ELSE <<>>) \o rest.source,
     keys   |-> first.keys \o rest.keys,
     n      |-> rest.n + 1]

\* parts.join('|') and the keys pushed by the elements, in order
RECURSIVE JoinParts(_, _)
JoinParts(elements, options) ==
    IF elements = <<>> THEN [source |-> <<>>, keys |-> <<>>, n |-> 0]
    ELSE Joined(ElementSource(Head(elements), options), JoinParts(Tail(elements), options))

\* '(?:' + parts + ')'
Grouped(parts) ==
    [source |-> <<"(", "?", ":">> \o parts.source \o <<")">>, keys |-> parts.keys]

\* arrayToRegexp(arr, keys, options): (?:A|B|...)
arrayToRegexp(arr, options) == Grouped(JoinParts(arr.elements, options))

\* pathToRegexp(val, keys, options): the source of the RegExp made and the keys
pathToRegexp(val, options) ==
    IF val.kind = "array" THEN arrayToRegexp(val, options) ELSE ElementSource(val, options)

(***************************************************************************)
(* Running a compiled pattern: RegExp.prototype.exec for the expressions   *)
(* stringToRegexp builds, in the engine's backtracking order.  A result is *)
(* [ok, len, caps]: len characters of the path were matched (match[0]) and *)
(* caps are the captures, one per key, UNDEF for a group that took no part.*)
(***************************************************************************)

NoMatch == [ok |-> FALSE, len |-> 0, caps |-> <<>>]

\* a faulty variant of TrailingRule: the expression is always anchored at the end
TrailingRuleAnchored(re, path, pos, caps) ==
    IF pos > Len(path) THEN [ok |-> TRUE, len |-> pos - 1, caps |-> caps] ELSE NoMatch

\* the trailing rule of stringToRegexp at position pos (1-based, next to read)
TrailingRule(re, path, pos, caps) ==
    LET atEnd     == pos > Len(path)
        lastSlash == pos = Len(path) /\ path[pos] = "/"
    IN IF re.end
       THEN \* (?:\/)?$  or, strict, $
            IF atEnd THEN [ok |-> TRUE, len |-> pos - 1, caps |-> caps]
            ELSE IF ~re.strict /\ lastSlash THEN [ok |-> TRUE, len |-> pos, caps |-> caps]
            ELSE NoMatch
       ELSE \* (?:\/(?=$))?  then, unless the pattern ends in a delimiter, (?=\/|$)
            IF ~re.strict /\ lastSlash THEN [ok |-> TRUE, len |-> pos, caps |-> caps]
            ELSE IF re.isEndDelimited \/ atEnd \/ path[pos] = "/"
            THEN [ok |-> TRUE, len |-> pos - 1, caps |-> caps]
            ELSE NoMatch

RECURSIVE MatchTok(_, _, _, _, _)
RECURSIVE Capture(_, _, _, _, _, _)

\* inside the capture of token k, which began at start and has consumed the
\* characters up to p (exclusive): a lazy [^d]+? stops as early as the rest of
\* the expression allows; a repeated capture first tries one more
\* prefix-separated segment
Capture(re, path, k, start, p, caps) ==
    LET tok   == re.tokens[k]
        more  == p <= Len(path) /\ <<path[p]>> # tok.delimiter
        q     == p + Len(tok.prefix)
        again == /\ tok.repeat
                 /\ HasAt(path, p, tok.prefix)
                 /\ q <= Len(path) /\ <<path[q]>> # tok.delimiter
        r1    == IF again THEN Capture(re, path, k, start, q + 1, caps) ELSE NoMatch
        r2    == MatchTok(re, path, k + 1, p, Append(caps, SubSeq(path, start, p - 1)))
    IN IF r1.ok THEN r1
       ELSE IF r2.ok THEN r2
       ELSE IF more THEN Capture(re, path, k, start, p + 1, caps)
       ELSE NoMatch

\* match tokens k.. of the expression at position pos
MatchTok(re, path, k, pos, caps) ==
    IF k > Len(re.tokens) THEN TrailingRule(re, path, pos, caps)
    ELSE LET tok == re.tokens[k] IN
      IF tok.type = "str"
      THEN IF HasAt(path, pos, tok.text)
           THEN MatchTok(re, path, k + 1, pos + Len(tok.text), caps)
           ELSE NoMatch
      ELSE LET q     == pos + Len(tok.prefix)
               first == /\ HasAt(path, pos, tok.prefix)
                        /\ q <= Len(path) /\ <<path[q]>> # tok.delimiter
               with  == IF first THEN Capture(re, path, k, q, q + 1, caps) ELSE NoMatch
           IN IF with.ok \/ ~tok.optional THEN with
              ELSE IF ~tok.partial
              THEN \* (?:prefix(capture))? skipped
                   MatchTok(re, path, k + 1, pos, Append(caps, UNDEF))
              ELSE \* prefix(capture)? with the capture skipped
                   IF HasAt(path, pos, tok.prefix)
                   THEN MatchTok(re, path, k + 1, q, Append(caps, UNDEF))
                   ELSE NoMatch

\* regex.exec(path): the expression is anchored at the start
Exec(re, path) == MatchTok(re, path, 1, 1, <<>>)

(***************************************************************************)
(* Params: a map from key names to captured values.                        *)
(***************************************************************************)

NoParams == <<>>

HasOwn(params, prop) == prop \in DOMAIN params

Put(params, prop, val) ==
    [x \in DOMAIN params \cup {prop} |-> IF x = prop THEN val ELSE params[x]]

(***************************************************************************)
(* The promise based Layer: `new Layer(pattern, fn, options)`.             *)
(***************************************************************************)

\* the options a Layer is constructed with: { strict: false, end: false, ...options }
LayerOptions == [strict |-> FALSE, end |-> FALSE]

\* the lazily built regex of a layer whose pattern is a string
LayerRegex(pattern) == stringToRegexp(pattern, LayerOptions)

\* the loop of Layer.match over the captures: capture i goes to key i, an
\* unnamed key takes the next ordinal
RECURSIVE MatchParams(_, _, _, _, _)
MatchParams(keys, caps, i, n, params) ==
    IF i > Len(caps) THEN params
    ELSE LET named == i <= Len(keys) /\ keys[i].name # <<>>
             prop  == IF named THEN keys[i].name ELSE Ordinal(n)
         IN MatchParams(keys, caps, i + 1, IF named THEN n ELSE n + 1,
                        Put(params, prop, caps[i]))

\* Layer.match(filepath) of a layer whose regex is re: null (ok = FALSE) for
\* an empty path or no match, otherwise the params object
LayerMatchWith(re, filepath) ==
    IF filepath = <<>> THEN [ok |-> FALSE, params |-> NoParams]
    ELSE LET m == Exec(re, filepath)
         IN IF ~m.ok THEN [ok |-> FALSE, params |-> NoParams]
            ELSE [ok |-> TRUE, params |-> MatchParams(re.keys, m.caps, 1, 0, NoParams)]

\* Layer.match(filepath) of a layer constructed with the pattern
LayerMatch(pattern, filepath) == LayerMatchWith(LayerRegex(pattern), filepath)

(***************************************************************************)
(* The promise based Router, Route and Layer.                              *)
(*                                                                         *)
(* A handler function is one of three kinds: "sync" changes the file and   *)
(* returns no promise; "async" returns a promise that a timer settles      *)
(* later, changing the file when it resolves; "throw" throws when invoked. *)
(* Timers and promise reactions of different chains fire in any order.     *)
(***************************************************************************)

\* the phase names a caller registers and dispatches
Names == {"foo", "bar"}
\* the value of a handler name that is left out, as in router.handler()
UndefinedName == "<undefined name>"
\* what handler and handle are called with
PhaseNames == Names \cup {UndefinedName}

\* the patterns routes are registered with, and the paths of dispatched files
RoutePatterns == { <<"/", "a">>, <<"/", "b">> }
FilePaths == { <<"/", "a", "/", "b">> }

FnKinds == {"sync", "async", "throw"}

\* at most MaxRoutes routes are registered, each with at most MaxFns handlers
MaxRoutes == 2
MaxFns == 2

FnLists == UNION { [1..n -> FnKinds] : n \in 0..MaxFns }

VARIABLES
    pMethods,   \* Router.methods: the registered handler names, in insertion order
    pRoutes,    \* Router.routes: name -> the routes registered under it, in insertion order
    pRouteTab,  \* the Route objects: [method, pattern, fns], fns the stack of layers
    pParallel,  \* options.parallel
    pSync,      \* options.sync: handle and all are the synchronous functions
    pTop,       \* the caller's call: [kind, method]
    pFile,      \* the file: [path, names]; a handler appends its identity to names
    pAll,       \* the Router.all call: [state, mi, err]
    pHandle,    \* the Router.handle call of each name: [state, ri, err]
    pTask,      \* the Route.handle call of each route: [state, li, err]
    pLog,       \* history: the handler invocations and their settlements
    pTimers     \* the promises of handlers that a synchronous handle left unawaited: <<route, layer>>

pVars == <<pMethods, pRoutes, pRouteTab, pParallel, pSync, pTop, pFile, pAll, pHandle, pTask, pLog,
           pTimers>>

VARIABLES
    mStack,     \* router.stack of the callback based router: the layers, in registration order
    mParams,    \* router.params: name -> the param callbacks registered for it, in order
    mLayer,     \* the fields Layer.match stores on each layer: [params, path]
    mCall       \* the router.handle calls: closure variables, file, observations

mVars == <<mStack, mParams, mLayer, mCall>>

VARIABLES
    rStack,     \* route.stack of a callback based Route: the layers [method, handle]
    rReduce,    \* the Route dispatches with async-array-reduce rather than with next
    rCall,      \* the route.dispatch call: closure variables and observations
    rMethods    \* route.methods: [recorded, names], recorded the keys set to true and
                \* names the name each layer of the stack was registered under

rVars == <<rStack, rReduce, rCall, rMethods>>

VARIABLES
    dRoutes,    \* router._routes of the filter based Router: [filter, regexp, handle]
    dCall       \* the router.dispatch call: state.i, j, the argument of callbacks, observations

dVars == <<dRoutes, dCall>>

VARIABLES
    bRouter,    \* a promise based Router: [methods, routes], routes name -> [pattern, fn]
    bBound,     \* the Router that bRouter.route(pattern) returned: [made, pattern, keys, router, calls]
    bFile,      \* the file handed to handle: [path, content]
    bCalled     \* the router handle(file) was called on: "none", "router" or "bound"

bVars == <<bRouter, bBound, bFile, bCalled>>

VARIABLES
    gPath,      \* the path handed to Layer.match
    gMatch      \* what Layer.match returned: [applied, ok, params]

gVars == <<gPath, gMatch>>

VARIABLES
    lLayer,     \* a promise based Layer over its lifetime: [made, pattern, compiles], compiles the
                \* number of times its regex getter has compiled the pattern
    lLog        \* the layer.match calls made so far: [path, threw, ok, params, caps, compiled]

lVars == <<lLayer, lLog>>

VARIABLES
    cPattern,   \* the pattern handed to pathToRegexp
    cOut        \* what pathToRegexp made of it: [done, options, source, keys], and the path
                \* the regex was then run on: [tested, path, accepted]

cVars == <<cPattern, cOut>>

VARIABLES
    hStack,     \* router.stack of the Router that walks it with reduce: [route, methods, fn, regexp]
    hCall       \* the router.handle call: closure variables, file, and what the callback saw

hVars == <<hStack, hCall>>

VARIABLES
    sLayer      \* a callback based Layer over its lifetime: [made, kind, pattern, options,
                \* regexp, fields], fields its stored params and path, and the match calls
                \* made on it so far, log: [path, result, before, after]

sVars == <<sLayer>>

VARIABLES
    kMerge      \* a call of mergeParams(layer.params, parentParams) by a nested router and
                \* the return of the nested dispatch: [pc, version, params, parent, out, seen]

kVars == <<kMerge>>

\* the variables each part of the model leaves alone
notP == <<mVars, rVars, dVars, bVars, gVars, lVars, cVars, hVars, sVars, kVars>>
notM == <<pVars, rVars, dVars, bVars, gVars, lVars, cVars, hVars, sVars, kVars>>
notR == <<pVars, mVars, dVars, bVars, gVars, lVars, cVars, hVars, sVars, kVars>>
notD == <<pVars, mVars, rVars, bVars, gVars, lVars, cVars, hVars, sVars, kVars>>
notB == <<pVars, mVars, rVars, dVars, gVars, lVars, cVars, hVars, sVars, kVars>>
notG == <<pVars, mVars, rVars, dVars, bVars, lVars, cVars, hVars, sVars, kVars>>
notL == <<pVars, mVars, rVars, dVars, bVars, gVars, cVars, hVars, sVars, kVars>>
notC == <<pVars, mVars, rVars, dVars, bVars, gVars, lVars, hVars, sVars, kVars>>
notH == <<pVars, mVars, rVars, dVars, bVars, gVars, lVars, cVars, sVars, kVars>>
notS == <<pVars, mVars, rVars, dVars, bVars, gVars, lVars, cVars, hVars, kVars>>
notK == <<pVars, mVars, rVars, dVars, bVars, gVars, lVars, cVars, hVars, sVars>>

vars == <<pMethods, pRoutes, pRouteTab, pParallel, pSync, pTop, pFile, pAll, pHandle, pTask, pLog,
          pTimers,
          mStack, mParams, mLayer, mCall,
          rStack, rReduce, rCall, rMethods,
          dRoutes, dCall,
          bRouter, bBound, bFile, bCalled,
          gPath, gMatch,
          lLayer, lLog,
          cPattern, cOut,
          hStack, hCall,
          sLayer,
          kMerge>>

NoErr == [type |-> "none", r |-> 0, li |-> 0]
\* new Error(`Router handler "${method}" does not exist`)
DoesNotExist == [type |-> "does not exist", r |-> 0, li |-> 0]
\* the error thrown or rejected by handler li of route r
HandlerErr(r, li) == [type |-> "handler", r |-> r, li |-> li]

Ev(ev, r, li) == [ev |-> ev, r |-> r, li |-> li]

IdleCall == [state |-> "none", at |-> 0, err |-> NoErr]

\* the router after construction; options.parallel is read only by the async
\* handle and all, which options.sync replaces, so the two are not combined
PInit ==
    /\ pMethods = <<>>
    /\ pRoutes = <<>>
    /\ pRouteTab = <<>>
    /\ pParallel \in BOOLEAN
    /\ pSync \in BOOLEAN
    /\ ~(pSync /\ pParallel)
    /\ pTop = [kind |-> "none", method |-> ""]
    /\ pFile = [path |-> <<>>, names |-> <<>>]
    /\ pAll = IdleCall
    /\ pHandle = [m \in PhaseNames |-> IdleCall]
    /\ pTask = <<>>
    /\ pLog = <<>>
    /\ pTimers = {}

InSeq(x, seq) == \E i \in 1..Len(seq) : seq[i] = x

\* typeof method === 'string'
IsString(method) == method \in Names

\* Router.handler(method): the routes entry is made before the type is checked
Handler(method) ==
    /\ pTop.kind = "none"
    /\ pRoutes' = IF method \in DOMAIN pRoutes THEN pRoutes ELSE Put(pRoutes, method, <<>>)
    /\ IF IsString(method)
       THEN pMethods' = IF InSeq(method, pMethods) THEN pMethods ELSE Append(pMethods, method)
       ELSE UNCHANGED pMethods
    /\ UNCHANGED <<pRouteTab, pParallel, pSync, pTop, pFile, pAll, pHandle, pTask, pLog, pTimers>>
    /\ UNCHANGED notP

\* router[method](pattern, ...fns): a new Route with one layer per function is
\* added to the routes of the method; the layers of a route are constructed
\* with the same pattern and options, and regex is the expression they compile
Register(method, pattern, fns) ==
    /\ pTop.kind = "none"
    /\ InSeq(method, pMethods)
    /\ Len(pRouteTab) < MaxRoutes
    /\ pRouteTab' = Append(pRouteTab, [method |-> method, pattern |-> pattern, fns |-> fns,
                                       regex |-> LayerRegex(pattern)])
    /\ pRoutes' = [pRoutes EXCEPT ![method] = Append(@, Len(pRouteTab) + 1)]
    /\ pTask' = Append(pTask, IdleCall)
    /\ UNCHANGED <<pMethods, pParallel, pSync, pTop, pFile, pAll, pHandle, pLog, pTimers>>
    /\ UNCHANGED notP

\* Route.handle(file) is entered: this.status = 'starting'
ReadyCall == [state |-> "ready", at |-> 1, err |-> NoErr, status |-> "starting"]
RunningCall == [state |-> "running", at |-> 1, err |-> NoErr]
Settled(call, state, err) == [call EXCEPT !.state = state, !.err = err]

\* faulty variants of the two lookups: a has() that is true of every name, and
\* a get() that yields the routes of every name
HasAnyMethod(method) == TRUE
RoutesOfAny(method) == [i \in 1..Len(pRouteTab) |-> i]

\* this.routes.has(method) and this.routes.get(method)
RoutesHas(method) == method \in DOMAIN pRoutes
RoutesOf(method) == IF method \in DOMAIN pRoutes THEN pRoutes[method] ELSE <<>>

\* a faulty variant of the mode test of Router.all: the phases are never awaited in turn
AlwaysParallel == TRUE

\* `if (this.options.parallel)` in Router.all and in Router.handle
AllParallel == pParallel
HandleParallel == pParallel

\* Router.handle(method, file) up to its first await: an unknown method throws;
\* in parallel mode route.handle(file) is called on every route of the method
HandleStart(method, handle, task) ==
    IF ~RoutesHas(method)
    THEN [handle |-> [handle EXCEPT ![method] = Settled(@, "rejected", DoesNotExist)],
          task   |-> task]
    ELSE [handle |-> [handle EXCEPT ![method] = RunningCall],
          task   |-> IF HandleParallel
                     THEN [r \in DOMAIN task |->
                             IF InSeq(r, RoutesOf(method)) THEN ReadyCall ELSE task[r]]
                     ELSE task]

\* the loop of Router.all in parallel mode: handle(method, file) for every method
RECURSIVE StartAll(_, _, _)
StartAll(i, handle, task) ==
    IF i > Len(pMethods) THEN [handle |-> handle, task |-> task]
    ELSE LET s == HandleStart(pMethods[i], handle, task)
         IN StartAll(i + 1, s.handle, s.task)

\* what a synchronous call has done so far: the file, the history, the
\* promises left unawaited, and the error that is being thrown (NoErr: none)
SyncRun(path) == [file |-> [path |-> path, names |-> <<>>], log |-> <<>>,
                  timers |-> {}, err |-> NoErr]

\* Route.handle(file) of a Route constructed with options.sync, from layer li
\* on: the handler of each layer in turn is called and its result is not
\* awaited; a handler that throws ends the loop
RECURSIVE syncRoute(_, _, _)
syncRoute(r, li, run) ==
    LET fns == pRouteTab[r].fns IN
    IF li > Len(fns) \/ run.err # NoErr THEN run
    ELSE IF ~LayerMatchWith(pRouteTab[r].regex, run.file.path).ok
    THEN syncRoute(r, li + 1, run)
    ELSE CASE fns[li] = "sync" ->
                syncRoute(r, li + 1,
                          [run EXCEPT !.file.names = Append(@, <<r, li>>),
                                      !.log = @ \o <<Ev("start", r, li), Ev("end", r, li)>>])
           [] fns[li] = "async" ->
                syncRoute(r, li + 1,
                          [run EXCEPT !.log = Append(@, Ev("start", r, li)),
                                      !.timers = @ \cup {<<r, li>>}])
           [] OTHER ->
                [run EXCEPT !.log = @ \o <<Ev("start", r, li), Ev("fail", r, li)>>,
                            !.err = HandlerErr(r, li)]

\* a faulty variant of the loop of the synchronous handle: it is left after
\* the first route
RECURSIVE syncRoutesFirstOnly(_, _, _)
syncRoutesFirstOnly(routes, i, run) ==
    IF i > Len(routes) \/ i > 1 THEN run
    ELSE syncRoutesFirstOnly(routes, i + 1, syncRoute(routes[i], 1, run))

\* `for (let route of router.routes.get(method)) route.handle(file)`
RECURSIVE syncRoutes(_, _, _)
syncRoutes(routes, i, run) ==
    IF i > Len(routes) \/ run.err # NoErr THEN run
    ELSE syncRoutes(routes, i + 1, syncRoute(routes[i], 1, run))

\* the synchronous handle(router, method, file), installed by options.sync:
\* an unknown method throws to the caller; otherwise route.handle(file) is
\* called on every route of the method and the function returns the file
syncHandle(method, handle, run) ==
    IF ~RoutesHas(method)
    THEN [handle |-> [handle EXCEPT ![method] = Settled(@, "thrown", DoesNotExist)],
          run    |-> [run EXCEPT !.err = DoesNotExist]]
    ELSE LET out == syncRoutes(RoutesOf(method), 1, run)
         IN [handle |-> [handle EXCEPT ![method] =
                           IF out.err = NoErr THEN Settled(RunningCall, "returned", NoErr)
                           ELSE Settled(RunningCall, "thrown", out.err)],
             run    |-> out]

\* the synchronous all(router, file): router.handle(method, file) for every
\* method, until one of the calls throws
RECURSIVE syncAll(_, _, _)
syncAll(i, handle, run) ==
    IF i > Len(pMethods) \/ run.err # NoErr THEN [handle |-> handle, run |-> run]
    ELSE LET s == syncHandle(pMethods[i], handle, run)
         IN syncAll(i + 1, s.handle, s.run)

\* the caller calls router.handle(method, file)
CallHandle(method, path) ==
    /\ pTop.kind = "none"
    /\ pTop' = [kind |-> "handle", method |-> method]
    /\ IF pSync
       THEN LET s == syncHandle(method, pHandle, SyncRun(path))
            IN /\ pHandle' = s.handle
               /\ pFile' = s.run.file /\ pLog' = s.run.log /\ pTimers' = s.run.timers
               /\ UNCHANGED pTask
       ELSE LET s == HandleStart(method, pHandle, pTask)
            IN /\ pHandle' = s.handle /\ pTask' = s.task
               /\ pFile' = [path |-> path, names |-> <<>>]
               /\ UNCHANGED <<pLog, pTimers>>
    /\ UNCHANGED <<pMethods, pRoutes, pRouteTab, pParallel, pSync, pAll>>
    /\ UNCHANGED notP

\* the caller calls router.all(file)
CallAll(path) ==
    /\ pTop.kind = "none"
    /\ pTop' = [kind |-> "all", method |-> ""]
    /\ IF pSync
       THEN LET s == syncAll(1, pHandle, SyncRun(path))
            IN /\ pHandle' = s.handle
               /\ pAll' = IF s.run.err = NoErr THEN Settled(RunningCall, "returned", NoErr)
                          ELSE Settled(RunningCall, "thrown", s.run.err)
               /\ pFile' = s.run.file /\ pLog' = s.run.log /\ pTimers' = s.run.timers
               /\ UNCHANGED pTask
       ELSE /\ pAll' = RunningCall
            /\ pFile' = [path |-> path, names |-> <<>>]
            /\ IF AllParallel
               THEN LET s == StartAll(1, pHandle, pTask)
                    IN pHandle' = s.handle /\ pTask' = s.task
               ELSE UNCHANGED <<pHandle, pTask>>
            /\ UNCHANGED <<pLog, pTimers>>
    /\ UNCHANGED <<pMethods, pRoutes, pRouteTab, pParallel, pSync>>
    /\ UNCHANGED notP

\* Router.all in series: `await this.handle(method, file)` for each method in turn
AllStep ==
    /\ pAll.state = "running"
    /\ ~AllParallel
    /\ IF pAll.at > Len(pMethods)
       THEN pAll' = Settled(pAll, "resolved", NoErr) /\ UNCHANGED <<pHandle, pTask>>
       ELSE LET m == pMethods[pAll.at]
                h == pHandle[m]
            IN CASE h.state = "none" ->
                      LET s == HandleStart(m, pHandle, pTask)
                      IN pHandle' = s.handle /\ pTask' = s.task /\ UNCHANGED pAll
                 [] h.state = "resolved" ->
                      pAll' = [pAll EXCEPT !.at = @ + 1] /\ UNCHANGED <<pHandle, pTask>>
                 [] h.state = "rejected" ->
                      pAll' = Settled(pAll, "rejected", h.err) /\ UNCHANGED <<pHandle, pTask>>
                 [] OTHER -> FALSE
    /\ UNCHANGED <<pMethods, pRoutes, pRouteTab, pParallel, pSync, pTop, pFile, pLog, pTimers>>
    /\ UNCHANGED notP

\* what `await Promise.all(arr)` of Router.all waits for
AllAwaited == \A i \in 1..Len(pMethods) : pHandle[pMethods[i]].state = "resolved"

\* Router.all in parallel: `await Promise.all(arr)` settles
AllSettle ==
    /\ pAll.state = "running"
    /\ AllParallel
    /\ \/ \E i \in 1..Len(pMethods) :
             /\ pHandle[pMethods[i]].state = "rejected"
             /\ pAll' = Settled(pAll, "rejected", pHandle[pMethods[i]].err)
       \/ /\ AllAwaited
          /\ pAll' = Settled(pAll, "resolved", NoErr)
    /\ UNCHANGED <<pMethods, pRoutes, pRouteTab, pParallel, pSync, pTop, pFile, pHandle, pTask, pLog, pTimers>>
    /\ UNCHANGED notP

\* Router.handle in series: `await route.handle(file)` for each route in turn
HandleStep(method) ==
    /\ pHandle[method].state = "running"
    /\ ~HandleParallel
    /\ LET h == pHandle[method]
           routes == RoutesOf(method)
       IN IF h.at > Len(routes)
          THEN pHandle' = [pHandle EXCEPT ![method] = Settled(@, "resolved", NoErr)]
               /\ UNCHANGED pTask
          ELSE LET r == routes[h.at]
               IN CASE pTask[r].state = "none" ->
                         pTask' = [pTask EXCEPT ![r] = ReadyCall] /\ UNCHANGED pHandle
                    [] pTask[r].state = "finished" ->
                         pHandle' = [pHandle EXCEPT ![method].at = @ + 1] /\ UNCHANGED pTask
                    [] pTask[r].state = "rejected" ->
                         pHandle' = [pHandle EXCEPT
                                       ![method] = Settled(@, "rejected", pTask[r].err)]
                         /\ UNCHANGED pTask
                    [] OTHER -> FALSE
    /\ UNCHANGED <<pMethods, pRoutes, pRouteTab, pParallel, pSync, pTop, pFile, pAll, pLog, pTimers>>
    /\ UNCHANGED notP

\* a faulty variant of the wait of Router.handle: Promise.all of nothing
NothingAwaited(method) == TRUE

\* what `await Promise.all(arr)` of Router.handle waits for
HandleAwaited(method) ==
    \A i \in 1..Len(RoutesOf(method)) : pTask[RoutesOf(method)[i]].state = "finished"

\* Router.handle in parallel: `await Promise.all(arr)` settles
HandleSettle(method) ==
    /\ pHandle[method].state = "running"
    /\ HandleParallel
    /\ \/ \E i \in 1..Len(RoutesOf(method)) :
             LET r == RoutesOf(method)[i]
             IN /\ pTask[r].state = "rejected"
                /\ pHandle' = [pHandle EXCEPT
                                 ![method] = Settled(@, "rejected", pTask[r].err)]
       \/ /\ HandleAwaited(method)
          /\ pHandle' = [pHandle EXCEPT ![method] = Settled(@, "resolved", NoErr)]
    /\ UNCHANGED <<pMethods, pRoutes, pRouteTab, pParallel, pSync, pTop, pFile, pAll, pTask, pLog, pTimers>>
    /\ UNCHANGED notP

\* faulty variants of the loop of Route.handle: the promise of a handler is
\* not awaited, and the error of a handler is swallowed
NoAwaitLayer(t) == [t EXCEPT !.at = @ + 1]
RouteSwallow(t, r) == [t EXCEPT !.state = "ready", !.at = @ + 1]

\* Route.handle after a layer's handler returned a pending promise:
\* `await layer.handle(file)` suspends the loop until the promise settles
AwaitLayer(t) == [t EXCEPT !.state = "pending"]

\* Route.handle when `await layer.handle(file)` throws: the async function
\* rejects with the error and the loop is left
RouteFail(t, r) == Settled(t, "rejected", HandlerErr(r, t.at))

\* route.status: undefined until the route is handled for the first time
RouteStatus(r) == IF "status" \in DOMAIN pTask[r] THEN pTask[r].status ELSE "undefined"

\* Layer.handle: the handler of the layer matches file.path itself and calls
\* the function only on a match
LayerHandles(r) == LayerMatchWith(pRouteTab[r].regex, pFile.path).ok

\* Route.handle: one turn of `for (const layer of this.stack)`: the handler of
\* the next layer is invoked
RouteInvoke(r) ==
    /\ pTask[r].state = "ready"
    /\ LET t    == pTask[r]
           fns  == pRouteTab[r].fns
           li   == t.at
           advanced == [t EXCEPT !.at = @ + 1]
       IN IF li > Len(fns)
          THEN \* the stack is exhausted: the route is finished
               /\ pTask' = [pTask EXCEPT ![r] = [Settled(t, "finished", NoErr) EXCEPT
                                                   !.status = "finished"]]
               /\ UNCHANGED <<pFile, pLog>>
          ELSE IF ~LayerHandles(r)
          THEN /\ pTask' = [pTask EXCEPT ![r] = advanced]
               /\ UNCHANGED <<pFile, pLog>>
          ELSE CASE fns[li] = "sync" ->
                      /\ pFile' = [pFile EXCEPT !.names = Append(@, <<r, li>>)]
                      /\ pLog' = pLog \o <<Ev("start", r, li), Ev("end", r, li)>>
                      /\ pTask' = [pTask EXCEPT ![r] = advanced]
                 [] fns[li] = "async" ->
                      /\ pLog' = Append(pLog, Ev("start", r, li))
                      /\ pTask' = [pTask EXCEPT ![r] = AwaitLayer(t)]
                      /\ UNCHANGED pFile
                 [] OTHER ->
                      /\ pLog' = pLog \o <<Ev("start", r, li), Ev("fail", r, li)>>
                      /\ pTask' = [pTask EXCEPT ![r] = RouteFail(t, r)]
                      /\ UNCHANGED pFile
    /\ UNCHANGED <<pMethods, pRoutes, pRouteTab, pParallel, pSync, pTop, pAll, pHandle, pTimers>>
    /\ UNCHANGED notP

\* the timer of an "async" handler fires: the handler changes the file and
\* resolves its promise, or rejects it
RouteSettle(r, resolves) ==
    /\ r \in DOMAIN pTask
    /\ pTask[r].state = "pending"
    /\ LET t == pTask[r] IN
       IF resolves
       THEN /\ pFile' = [pFile EXCEPT !.names = Append(@, <<r, t.at>>)]
            /\ pLog' = Append(pLog, Ev("end", r, t.at))
            /\ pTask' = [pTask EXCEPT ![r] = [t EXCEPT !.state = "ready", !.at = @ + 1]]
       ELSE /\ pLog' = Append(pLog, Ev("fail", r, t.at))
            /\ pTask' = [pTask EXCEPT ![r] = RouteFail(t, r)]
            /\ UNCHANGED pFile
    /\ UNCHANGED <<pMethods, pRoutes, pRouteTab, pParallel, pSync, pTop, pAll, pHandle, pTimers>>
    /\ UNCHANGED notP

\* the timer of an "async" handler that a synchronous handle called fires:
\* the handler changes the file and resolves its promise, or rejects it, and
\* nothing awaits the promise
SyncTimer(r, li, resolves) ==
    /\ <<r, li>> \in pTimers
    /\ pTimers' = pTimers \ {<<r, li>>}
    /\ IF resolves
       THEN /\ pFile' = [pFile EXCEPT !.names = Append(@, <<r, li>>)]
            /\ pLog' = Append(pLog, Ev("end", r, li))
       ELSE /\ pLog' = Append(pLog, Ev("fail", r, li))
            /\ UNCHANGED pFile
    /\ UNCHANGED <<pMethods, pRoutes, pRouteTab, pParallel, pSync, pTop, pAll, pHandle, pTask>>
    /\ UNCHANGED notP

PNext ==
    \/ \E m \in Names : Handler(m)
    \/ \E m \in Names, pattern \in RoutePatterns, fns \in FnLists : Register(m, pattern, fns)
    \/ \E m \in Names, path \in FilePaths : CallHandle(m, path)
    \/ \E path \in FilePaths : CallAll(path)
    \/ AllStep
    \/ AllSettle
    \/ \E m \in Names : HandleStep(m)
    \/ \E m \in Names : HandleSettle(m)
    \/ \E r \in DOMAIN pTask : RouteInvoke(r)
    \/ \E r \in DOMAIN pTask, resolves \in BOOLEAN : RouteSettle(r, resolves)

\* the router called with handler names that are strings or left out
PNamesNext ==
    \/ \E m \in PhaseNames : Handler(m)
    \/ \E m \in Names, pattern \in RoutePatterns, fns \in FnLists : Register(m, pattern, fns)
    \/ \E m \in PhaseNames, path \in FilePaths : CallHandle(m, path)
    \/ \E m \in PhaseNames : HandleStep(m)
    \/ \E m \in PhaseNames : HandleSettle(m)
    \/ \E r \in DOMAIN pTask : RouteInvoke(r)
    \/ \E r \in DOMAIN pTask, resolves \in BOOLEAN : RouteSettle(r, resolves)

\* the router constructed with options.sync: a call returns or throws within
\* its own step, and only the timers of the handlers it called remain
PSyncNext ==
    \/ \E m \in Names : Handler(m)
    \/ \E m \in Names, pattern \in RoutePatterns, fns \in FnLists : Register(m, pattern, fns)
    \/ \E m \in Names, path \in FilePaths : CallHandle(m, path)
    \/ \E path \in FilePaths : CallAll(path)
    \/ \E r \in DOMAIN pTask, li \in 1..MaxFns, resolves \in BOOLEAN : SyncTimer(r, li, resolves)

(***************************************************************************)
(* The callback based router: router.use, router.param and router.handle   *)
(* with its Layer.  A middleware function is one of five kinds: "next"     *)
(* calls next() before it returns, "async" calls next() from a timer,      *)
(* "err" calls next(err), "throw" throws, and "errh" is an error handling  *)
(* middleware (err, file, next) that calls next().  A param callback is    *)
(* one of "next", "async", "err" and "throw".  A handle call runs without  *)
(* interruption until it returns to the event loop; timers of different    *)
(* calls fire in any order.                                                *)
(***************************************************************************)

\* the paths middleware is mounted at, and the paths of dispatched files
MountPaths ==
    { <<"/">>,
      <<"/", "f">>,
      <<"/", "f", "/", ":", "u", "/">>,
      <<"/", ":", "u", "/", "b", "/">> }
DispatchPaths ==
    { <<"/", "f", "/", "b", "/", "a">>,
      <<"/", "f", "/", "a", "/", "b">>,
      <<"/", "f", "/", "%", "/", "b">> }

MwKinds == {"next", "async", "err", "throw", "errh"}
ParamKinds == {"next", "async", "err", "throw"}
ParamNames == { <<"u">> }

\* at most MaxLayers middleware are mounted and MaxParamFns callbacks are
\* registered for a name; at most MaxCalls handle calls are in flight
MaxLayers == 2
MaxParamFns == 1
MaxCalls == 2

\* the error a middleware passes to next or throws, the error of a param
\* callback, and the TypeError of decodeParam
MwErr(li) == [type |-> "middleware", r |-> 0, li |-> li]
ParamErr(k) == [type |-> "param", r |-> 0, li |-> k]
DecodeErr == [type |-> "decode", r |-> 0, li |-> 0]

\* the percent escapes of the characters of the model
Escapes == (<<"6", "1">> :> "a") @@ (<<"6", "2">> :> "b")

\* decodeURIComponent, left to right; ok is FALSE where it throws a URIError
RECURSIVE DecodeFrom(_, _, _)
DecodeFrom(str, i, out) ==
    IF i > Len(str) THEN [ok |-> TRUE, val |-> out]
    ELSE IF str[i] # "%" THEN DecodeFrom(str, i + 1, Append(out, str[i]))
    ELSE IF i + 2 <= Len(str) /\ <<str[i + 1], str[i + 2]>> \in DOMAIN Escapes
    THEN DecodeFrom(str, i + 3, Append(out, Escapes[<<str[i + 1], str[i + 2]>>]))
    ELSE [ok |-> FALSE, val |-> str]

\* utils.decodeParam(param): a value that is not a string is returned as it is
decodeParam(param) ==
    IF param = UNDEF THEN [ok |-> TRUE, val |-> UNDEF] ELSE DecodeFrom(param, 1, <<>>)

\* the options router.use constructs its layers with
UseOptions == [strict |-> FALSE, end |-> FALSE]

\* new Layer(path, options, handler): the fields that never change; regexp is
\* the compiled pattern, with this.keys inside it
Layer(path, options, handler) ==
    [pattern |-> path, options |-> options, handle |-> handler,
     regexp |-> stringToRegexp(path, options)]

\* router.route(path): the layer of a Route, new Layer(path, { end: true },
\* route.dispatch.bind(route)) with layer.route = route; methods are the names
\* the route has handlers for, and handler stands for the dispatch of its stack
RoutedLayer(path, methods, handler) ==
    [route |-> TRUE, methods |-> methods] @@ Layer(path, [strict |-> FALSE, end |-> TRUE], handler)

\* layer.route is set
IsRoute(layer) == "route" \in DOMAIN layer

\* a faulty variant of handlesMethod: every name is handled
RouteHandlesAny(methods, method) == TRUE

\* Route.prototype.handlesMethod(method) of the next based router
RouteHandlesMethod(methods, method) == "all" \in methods \/ method \in methods

\* the fields of a new layer that Layer.match overwrites
LayerFields(path) == [params |-> NoParams, path |-> path]

\* this.keys of a layer
LayerKeys(layer) == layer.regexp.keys

\* a faulty variant of fast_slash: the flag is never set
fast_slashNever(layer) == FALSE

\* this.fast_slash
fast_slash(layer) == layer.pattern = <<"/">> /\ layer.options.end = FALSE

\* handle.length of the middleware kinds
Arity(fn) == IF fn = "errh" THEN 3 ELSE 2

\* the loop of Layer.prototype.match over the captures; ok is FALSE when
\* decodeParam throws, and params then holds what was stored before the throw
RECURSIVE MatchLoop(_, _, _, _, _)
MatchLoop(keys, caps, i, n, params) ==
    IF i > Len(caps) THEN [ok |-> TRUE, params |-> params]
    ELSE LET hasKey == i <= Len(keys)
             prop   == IF hasKey THEN keys[i].name ELSE Ordinal(n)
             d      == decodeParam(caps[i])
         IN IF ~d.ok THEN [ok |-> FALSE, params |-> params]
            ELSE MatchLoop(keys, caps, i + 1, IF hasKey THEN n ELSE n + 1,
                           IF d.val # UNDEF \/ ~HasOwn(params, prop)
                           THEN Put(params, prop, d.val)
                           ELSE params)

\* Layer.prototype.match(path) on a layer whose stored fields are `fields`:
\* the result ("true", "false" or "throw") and the fields afterwards
match(layer, fields, path) ==
    IF path = <<>> THEN [result |-> "false", fields |-> fields]
    ELSE IF fast_slash(layer)
    THEN [result |-> "true", fields |-> [params |-> NoParams, path |-> <<>>]]
    ELSE LET m == Exec(layer.regexp, path)
         IN IF ~m.ok THEN [result |-> "false", fields |-> fields]
            ELSE LET l == MatchLoop(LayerKeys(layer), m.caps, 1, 0, NoParams)
                 IN [result |-> IF l.ok THEN "true" ELSE "throw",
                     fields |-> [params |-> l.params, path |-> Slice(path, 0, m.len)]]

\* file.options.params of a file that has none: undefined
UndefinedParams == Put(NoParams, UNDEF, UNDEF)

\* a file { path } handed to router.handle, before file.options is filled in
NewFile(path) ==
    [path |-> path, basePath |-> UNDEF, originalPath |-> UNDEF, params |-> UndefinedParams]

\* file.options.method of a file that carries none
NoMethod == "<undefined>"

\* a router.handle call that has not been made
IdleDispatch ==
    [pc |-> "idle", input |-> <<>>, method |-> NoMethod, arg |-> NoErr, file |-> NewFile(<<>>),
     idx |-> 0, removed |-> <<>>, slashAdded |-> FALSE, paramcalled |-> NoParams,
     parentPath |-> <<>>, saved |-> [basePath |-> UNDEF, params |-> UndefinedParams],
     layerError |-> NoErr, layerPath |-> <<>>, path |-> <<>>,
     i |-> 0, paramIndex |-> 0, name |-> <<>>, paramVal |-> UNDEF,
     out |-> NoErr, log |-> <<>>]

\* an observation of call c: what happened, at which layer, with which param
\* callback and value, and the file, the error and the closure variables
\* name and layerError as they were
Seen(ev, c, k, val) ==
    [ev |-> ev, li |-> c.idx, k |-> k, val |-> val, file |-> c.file, err |-> c.arg,
     name |-> c.name, pending |-> c.layerError]

MInit ==
    /\ mStack = <<>>
    /\ mParams = NoParams
    /\ mLayer = <<>>
    /\ mCall = [c \in 1..MaxCalls |-> IdleDispatch]

(***************************************************************************)
(* router.handle.  A machine state s is [call, layers]: the record of the  *)
(* running call and the stored fields of the shared layers.  call.pc names *)
(* the function that runs next and call.arg the error it is called with.   *)
(***************************************************************************)

\* router.handle(file, done) up to its call of next()
handle(s, path) ==
    LET file == NewFile(path)
    IN [s EXCEPT !.call =
          [IdleDispatch EXCEPT
             !.input = path,
             !.method = s.call.method,
             !.saved = [basePath |-> file.basePath, params |-> file.params],
             !.parentPath = IF file.basePath = UNDEF THEN <<>> ELSE file.basePath,
             !.file = [file EXCEPT
                         !.basePath = IF file.basePath = UNDEF THEN <<>> ELSE file.basePath,
                         !.originalPath = IF file.originalPath = UNDEF THEN path
                                          ELSE file.originalPath],
             !.pc = "next",
             !.arg = NoErr]]

\* done(err) as wrapped by restore(done, file.options, 'basePath', 'next',
\* 'params'): the options are put back and the final callback is called
done(c, err) ==
    LET restored == [c EXCEPT !.file.basePath = c.saved.basePath,
                              !.file.params = c.saved.params,
                              !.arg = err]
    IN [restored EXCEPT !.pc = "done", !.out = err,
                        !.log = Append(@, Seen("done", restored, 0, UNDEF))]

\* a faulty variant of the head of next: nothing is put back
KeepPath(c) == c.file

\* the head of next(err): what a mount removed from file.path is put back
RestorePath(c) ==
    LET unslashed == IF c.slashAdded THEN Substr(c.file.path, 1) ELSE c.file.path
    IN IF c.removed # <<>>
       THEN [c.file EXCEPT !.basePath = c.parentPath, !.path = c.removed \o unslashed]
       ELSE [c.file EXCEPT !.path = unslashed]

\* next(err): the next layer of the stack, or done when there is none
next(s) ==
    LET c  == s.call
        c2 == [c EXCEPT !.layerError = c.arg,
                        !.idx = @ + 1,
                        !.file = RestorePath(c),
                        !.slashAdded = FALSE,
                        !.removed = <<>>]
    IN IF c2.idx > Len(mStack)
       THEN [s EXCEPT !.call = done(c2, c2.layerError)]
       ELSE [s EXCEPT !.call = [c2 EXCEPT !.pc = "matchLayer"]]

\* a faulty variant of layerError || err: the new error is lost
OrErrDropped(layerError, err) == layerError

\* layerError || err
OrErr(layerError, err) == IF layerError # NoErr THEN layerError ELSE err

\* matchLayer(layer, file, cb) and the head of its callback: a layer that
\* does not match, or whose match throws, is passed over; for one that
\* matches the one-time values layer.params and layer.path are captured
matchLayer(s) ==
    LET c      == s.call
        m      == match(mStack[c.idx], s.layers[c.idx], c.file.path)
        layers == [s.layers EXCEPT ![c.idx] = m.fields]
        tried  == [c EXCEPT !.log = Append(@, Seen("try", c, 0, UNDEF))]
    IN CASE m.result = "throw" ->
              [call |-> [tried EXCEPT !.pc = "next", !.arg = OrErr(c.layerError, DecodeErr)],
               layers |-> layers]
         [] m.result = "false" ->
              [call |-> [tried EXCEPT !.pc = "next", !.arg = c.layerError],
               layers |-> layers]
         [] IsRoute(mStack[c.idx]) /\ c.layerError # NoErr ->
              \* no route is run with an error
              [call |-> [tried EXCEPT !.pc = "next", !.arg = c.layerError],
               layers |-> layers]
         [] IsRoute(mStack[c.idx])
              /\ ~RouteHandlesMethod(mStack[c.idx].methods, c.method) ->
              [call |-> [tried EXCEPT !.pc = "next", !.arg = NoErr],
               layers |-> layers]
         [] OTHER ->
              LET found == [tried EXCEPT !.file.params = layers[c.idx].params,
                                         !.layerPath = layers[c.idx].path,
                                         !.path = c.file.path,
                                         !.pc = "processParams"]
              IN [call |-> [found EXCEPT !.log = Append(@, Seen("match", found, 0, UNDEF))],
                  layers |-> layers]

\* a faulty variant of processParams: the fast track is taken for every layer
processParamsFastTrack(s) == [s EXCEPT !.call.pc = "processed", !.call.arg = NoErr]

\* processParams(layer, called, file, done) up to its call of param()
processParams(s) ==
    IF LayerKeys(mStack[s.call.idx]) = <<>>
    THEN [s EXCEPT !.call.pc = "processed", !.call.arg = NoErr]
    ELSE [s EXCEPT !.call.i = 0, !.call.paramIndex = 0,
                   !.call.pc = "param", !.call.arg = NoErr]

\* a faulty variant of the test of param(): an earlier error is forgotten
MemoizedByValue(paramCalled, paramVal) == paramCalled.match = paramVal

\* a faulty variant of the test of param(): nothing is remembered
NeverMemoized(paramCalled, paramVal) == FALSE

\* the test of param(): the callbacks of a name are not run again after one
\* of them failed, or for the value they were last run for
Memoized(paramCalled, paramVal) ==
    paramCalled.error # NoErr \/ paramCalled.match = paramVal

\* param(err) of processParams: the next key of the layer
param(s) ==
    LET c    == s.call
        keys == LayerKeys(mStack[c.idx])
    IN IF c.arg # NoErr \/ c.i >= Len(keys)
       THEN [s EXCEPT !.call.pc = "processed"]
       ELSE LET name     == keys[c.i + 1].name
                paramVal == IF HasOwn(c.file.params, name) THEN c.file.params[name] ELSE UNDEF
                c2       == [c EXCEPT !.paramIndex = 0, !.i = @ + 1,
                                      !.name = name, !.paramVal = paramVal]
            IN IF paramVal = UNDEF \/ ~HasOwn(mParams, name)
               THEN [s EXCEPT !.call = [c2 EXCEPT !.pc = "param", !.arg = NoErr]]
               ELSE IF HasOwn(c.paramcalled, name) /\ Memoized(c.paramcalled[name], paramVal)
               THEN [s EXCEPT !.call =
                       [c2 EXCEPT !.file.params = Put(@, name, c.paramcalled[name].value),
                                  !.pc = "param",
                                  !.arg = c.paramcalled[name].error]]
               ELSE [s EXCEPT !.call =
                       [c2 EXCEPT !.paramcalled =
                                     Put(@, name, [error |-> NoErr, match |-> paramVal,
                                                   value |-> paramVal]),
                                  !.pc = "paramCallback",
                                  !.arg = NoErr]]

\* paramCallback(err) of processParams: the next callback of the name
paramCallback(s) ==
    LET c  == s.call
        k  == c.paramIndex + 1
        c2 == [c EXCEPT !.paramIndex = k,
                        !.paramcalled[c.name].value = c.file.params[c.name]]
    IN IF c.arg # NoErr
       THEN [s EXCEPT !.call = [c2 EXCEPT !.paramcalled[c.name].error = c.arg,
                                          !.pc = "param"]]
       ELSE IF k > Len(mParams[c.name])
       THEN [s EXCEPT !.call = [c2 EXCEPT !.pc = "param", !.arg = NoErr]]
       ELSE LET fn == mParams[c.name][k]
                c3 == [c2 EXCEPT !.log = Append(@, Seen("param", c2, k, c.paramVal))]
            IN CASE fn = "next"  -> [s EXCEPT !.call = [c3 EXCEPT !.pc = "paramCallback"]]
                 [] fn = "async" -> [s EXCEPT !.call = [c3 EXCEPT !.pc = "paramTimer"]]
                 [] OTHER        -> [s EXCEPT !.call = [c3 EXCEPT !.pc = "paramCallback",
                                                                  !.arg = ParamErr(k)]]

\* a faulty variant of the callback handle gives to processParams: the error
\* of a param callback is not looked at
processedAnyway(s) == [s EXCEPT !.call.pc = "trimPrefix"]

\* the callback handle gives to processParams
processed(s) ==
    IF s.call.arg # NoErr
    THEN [s EXCEPT !.call.pc = "next", !.call.arg = OrErr(s.call.layerError, s.call.arg)]
    ELSE IF IsRoute(mStack[s.call.idx]) THEN [s EXCEPT !.call.pc = "handleFile"]
    ELSE [s EXCEPT !.call.pc = "trimPrefix"]

\* a faulty variant of the layerPath argument: layer.path is read when
\* trimPrefix runs, not when the layer matched
SharedLayerPath(s) == s.layers[s.call.idx].path

\* the layerPath argument of trimPrefix: layer.path as captured right after
\* the layer matched
CapturedLayerPath(s) == s.call.layerPath

\* trimPrefix(layer, layerError, layerPath, path): the part of file.path the
\* mount matched is removed, a leading slash is ensured, basePath is set
trimPrefix(s) ==
    LET c         == s.call
        layerPath == CapturedLayerPath(s)
        stripped  == Substr(c.file.path, Len(layerPath))
        slash     == stripped = <<>> \/ stripped[1] # "/"
        base      == IF layerPath[Len(layerPath)] = "/"
                     THEN Slice(layerPath, 0, Len(layerPath) - 1)
                     ELSE layerPath
        c2        == IF layerPath = <<>> THEN c
                     ELSE [c EXCEPT !.removed = layerPath,
                                    !.slashAdded = slash \/ @,
                                    !.file.path = IF slash THEN <<"/">> \o stripped
                                                  ELSE stripped,
                                    !.file.basePath = c.parentPath \o base]
    IN [s EXCEPT !.call = [c2 EXCEPT !.pc = IF c.layerError # NoErr THEN "handleError"
                                            ELSE "handleFile"]]

\* a faulty variant of the call of a middleware: the router goes on to the
\* next layer without waiting for the middleware
InvokeAndGoOn(s) ==
    [s EXCEPT !.call.log = Append(@, Seen("mw", s.call, 0, UNDEF)),
              !.call.pc = "next",
              !.call.arg = NoErr]

\* the middleware of the layer is called: it sees the file as it is now, and
\* a kind that calls next before returning does so
Invoke(s) ==
    LET c    == s.call
        fn   == mStack[c.idx].handle
        seen == [c EXCEPT !.log = Append(@, Seen("mw", c, 0, UNDEF))]
        went == [seen EXCEPT !.log = Append(@, Seen("next", c, 0, UNDEF))]
    IN CASE fn = "async" -> [s EXCEPT !.call = [seen EXCEPT !.pc = "mwTimer"]]
         [] fn = "err"   -> [s EXCEPT !.call = [went EXCEPT !.pc = "next", !.arg = MwErr(c.idx)]]
         [] fn = "throw" ->
              [s EXCEPT !.call = [seen EXCEPT !.log = Append(@, Seen("throw", c, 0, UNDEF)),
                                              !.pc = "next", !.arg = MwErr(c.idx)]]
         [] OTHER        -> [s EXCEPT !.call = [went EXCEPT !.pc = "next", !.arg = NoErr]]

\* Layer.prototype.handleFile(file, next): an error handling middleware is
\* passed over; what the middleware throws is passed to next
handleFile(s) ==
    IF Arity(mStack[s.call.idx].handle) > 2
    THEN [s EXCEPT !.call.pc = "next", !.call.arg = NoErr]
    ELSE Invoke(s)

\* a faulty variant of handleError: a middleware that is not an error handler
\* has the error reported to the final callback, and the walk goes on
handleErrorReportsEarly(s) ==
    IF Arity(mStack[s.call.idx].handle) < 3
    THEN [s EXCEPT !.call = [done(s.call, s.call.layerError) EXCEPT
                               !.pc = "next", !.arg = s.call.layerError]]
    ELSE Invoke(s)

\* Layer.prototype.handleError(err, file, next): a middleware that is not an
\* error handler is passed over with the error
handleError(s) ==
    IF Arity(mStack[s.call.idx].handle) < 3
    THEN [s EXCEPT !.call.pc = "next", !.call.arg = s.call.layerError]
    ELSE Invoke(s)

\* where a call has returned to the event loop
Suspended == {"idle", "mwTimer", "paramTimer", "done"}

\* the function named by call.pc runs
Step(s) ==
    CASE s.call.pc = "next"          -> next(s)
      [] s.call.pc = "matchLayer"    -> matchLayer(s)
      [] s.call.pc = "processParams" -> processParams(s)
      [] s.call.pc = "param"         -> param(s)
      [] s.call.pc = "paramCallback" -> paramCallback(s)
      [] s.call.pc = "processed"     -> processed(s)
      [] s.call.pc = "trimPrefix"    -> trimPrefix(s)
      [] s.call.pc = "handleFile"    -> handleFile(s)
      [] s.call.pc = "handleError"   -> handleError(s)
      [] OTHER                       -> s

\* the call runs until it returns to the event loop
RECURSIVE Run(_)
Run(s) == IF s.call.pc \in Suspended THEN s ELSE Run(Step(s))

NoCallYet == \A c \in DOMAIN mCall : mCall[c].pc = "idle"

\* router.use(path, fn)
Use(path, fn) ==
    /\ NoCallYet
    /\ mStack' = Append(mStack, Layer(path, UseOptions, fn))
    /\ mLayer' = Append(mLayer, LayerFields(path))
    /\ UNCHANGED <<mParams, mCall>>
    /\ UNCHANGED notM

\* router.param(name, fn)
Param(name, fn) ==
    /\ NoCallYet
    /\ LET fns == IF HasOwn(mParams, name) THEN mParams[name] ELSE <<>>
       IN /\ Len(fns) < MaxParamFns
          /\ mParams' = Put(mParams, name, Append(fns, fn))
    /\ UNCHANGED <<mStack, mLayer, mCall>>
    /\ UNCHANGED notM

\* the machine state of call c, and the variables after the call ran on
Running(c) == [call |-> mCall[c], layers |-> mLayer]
Resume(c, s) ==
    LET t == Run(s)
    IN /\ mCall' = [mCall EXCEPT ![c] = t.call]
       /\ mLayer' = t.layers

\* a caller calls router.handle({ path }, done)
Handle(c, path) ==
    /\ mCall[c].pc = "idle"
    /\ c > 1 => mCall[c - 1].pc # "idle"
    /\ Resume(c, handle(Running(c), path))
    /\ UNCHANGED <<mStack, mParams>>
    /\ UNCHANGED notM

\* the timer of an "async" middleware fires: it calls next()
MiddlewareTimer(c) ==
    /\ mCall[c].pc = "mwTimer"
    /\ Resume(c, [Running(c) EXCEPT
                    !.call.log = Append(@, Seen("next", mCall[c], 0, UNDEF)),
                    !.call.pc = "next",
                    !.call.arg = NoErr])
    /\ UNCHANGED <<mStack, mParams>>
    /\ UNCHANGED notM

\* the timer of an "async" param callback fires: it calls next()
ParamTimer(c) ==
    /\ mCall[c].pc = "paramTimer"
    /\ Resume(c, [Running(c) EXCEPT !.call.pc = "paramCallback", !.call.arg = NoErr])
    /\ UNCHANGED <<mStack, mParams>>
    /\ UNCHANGED notM

\* router.route(path)[method](fn)
MatchRoute(path, method, fn) ==
    /\ NoCallYet
    /\ mStack' = Append(mStack, RoutedLayer(path, {method}, fn))
    /\ mLayer' = Append(mLayer, LayerFields(path))
    /\ UNCHANGED <<mParams, mCall>>
    /\ UNCHANGED notM

\* a caller calls router.handle({ path, options: { method } }, done)
HandleMethod(c, path, method) ==
    /\ mCall[c].pc = "idle"
    /\ c > 1 => mCall[c - 1].pc # "idle"
    /\ Resume(c, handle([Running(c) EXCEPT !.call.method = method], path))
    /\ UNCHANGED <<mStack, mParams>>
    /\ UNCHANGED notM

MNext ==
    \/ \E path \in MountPaths, fn \in MwKinds : Len(mStack) < MaxLayers /\ Use(path, fn)
    \/ \E name \in ParamNames, fn \in ParamKinds : Param(name, fn)
    \/ \E c \in 1..MaxCalls, path \in DispatchPaths : Handle(c, path)
    \/ \E c \in 1..MaxCalls : MiddlewareTimer(c)
    \/ \E c \in 1..MaxCalls : ParamTimer(c)

\* A deeper stack on one file: three mounts that capture `u` from the first or
\* the second segment, or `m` from the first, so that the values a layer
\* after layer captures for a name can recur; the middleware and the param
\* callbacks call next, or signal or handle an error, before they return.
DeepMounts ==
    { <<"/", ":", "u">>,
      <<"/", "a", "/", ":", "u">>,
      <<"/", ":", "m">> }
DeepPaths == { <<"/", "a", "/", "b">> }
DeepNames == { <<"u">>, <<"m">> }
DeepMwKinds == {"next", "errh"}
DeepParamKinds == {"next", "err"}

\* at most MaxDeepLayers middleware are mounted on the deeper stack
MaxDeepLayers == 3

MDeepNext ==
    \/ \E path \in DeepMounts, fn \in DeepMwKinds :
          Len(mStack) < MaxDeepLayers /\ Use(path, fn)
    \/ \E name \in DeepNames, fn \in DeepParamKinds : Param(name, fn)
    \/ \E path \in DeepPaths : Handle(1, path)

\* A stack of mounts that capture two names on one file, with up to
\* MaxKeyParamFns param callbacks for each name: the callbacks call next
\* before they return or from a timer, or signal an error.
KeyMounts ==
    { <<"/", ":", "u", "/", ":", "m">>,
      <<"/", ":", "m", "/", ":", "u">>,
      <<"/", ":", "m">> }
KeyParamKinds == {"next", "async", "err"}

\* at most MaxKeyParamFns param callbacks are registered for a name, and at
\* most MaxKeyLayers middleware are mounted
MaxKeyParamFns == 2
MaxKeyLayers == 2

\* router.param(name, fn), for up to MaxKeyParamFns callbacks of a name
KeyParam(name, fn) ==
    /\ NoCallYet
    /\ LET fns == IF HasOwn(mParams, name) THEN mParams[name] ELSE <<>>
       IN /\ Len(fns) < MaxKeyParamFns
          /\ mParams' = Put(mParams, name, Append(fns, fn))
    /\ UNCHANGED <<mStack, mLayer, mCall>>
    /\ UNCHANGED notM

MKeysNext ==
    \/ \E path \in KeyMounts, fn \in DeepMwKinds :
          Len(mStack) < MaxKeyLayers /\ Use(path, fn)
    \/ \E name \in DeepNames, fn \in KeyParamKinds : KeyParam(name, fn)
    \/ \E path \in DeepPaths : Handle(1, path)
    \/ ParamTimer(1)

\* A stack of mounts and routes on one file: the routes are registered under
\* a phase name or under "all" and end the pattern; the file carries a
\* phase name or none; the middleware and the param callbacks call next, or
\* signal an error, before they return.
RoutedPatterns == { <<"/", ":", "u">>, <<"/", ":", "u", "/", "b">> }
RoutedMethods == {"all", "before", "after"}
RoutedFileMethods == {"before", NoMethod}
RoutedKinds == {"next", "err"}

\* at most MaxRoutedLayers layers are pushed on the stack
MaxRoutedLayers == 3

MRoutedNext ==
    \/ \E fn \in RoutedKinds :
          Len(mStack) < MaxRoutedLayers /\ Use(<<"/", ":", "u">>, fn)
    \/ \E path \in RoutedPatterns, method \in RoutedMethods, fn \in RoutedKinds :
          Len(mStack) < MaxRoutedLayers /\ MatchRoute(path, method, fn)
    \/ \E fn \in DeepParamKinds : Param(<<"u">>, fn)
    \/ \E path \in DeepPaths, method \in RoutedFileMethods : HandleMethod(1, path, method)

(***************************************************************************)
(* The callback based Route: route.layer and route.dispatch.  A route      *)
(* holds a stack of layers, each tagged with the name it was registered    *)
(* under; route.dispatch(file, cb) walks the stack.  Two implementations   *)
(* of dispatch are modelled: the one that walks the stack with next, and   *)
(* the one that folds over it with async-array-reduce.                     *)
(*                                                                         *)
(* A middleware is one of: "next" calls next(); "async" calls next() from  *)
(* a timer; "err" calls next(err); "throw" throws; "route" calls           *)
(* next('route'); "errh" is an error handler (err, file, next) that calls  *)
(* next(); "errpass" is an error handler that calls next(err) with the     *)
(* error it was given; "errthrow" is an error handler that throws.         *)
(***************************************************************************)

\* the names layers are registered under besides 'all'
RoutePhases == {"before", "after"}

\* file.options.method of a dispatched file; "" is a file that has none
FileMethods == {"", "before", "after"}

RouteKinds == {"next", "async", "err", "throw", "route", "errh", "errpass", "errthrow"}

\* at most MaxRouteLayers layers are pushed on the stack of the route
MaxRouteLayers == 3

\* the sentinel 'route', the error of the middleware of layer li, and the
\* TypeError of calling an undefined next
SkipRoute == [type |-> "route", r |-> 0, li |-> 0]
RouteErr(li) == [type |-> "route middleware", r |-> 0, li |-> li]
NotAFunction(li) == [type |-> "not a function", r |-> 0, li |-> li]

\* handle.length of the middleware kinds
RouteArity(fn) == IF fn \in {"errh", "errpass", "errthrow"} THEN 3 ELSE 2

\* Route.prototype.layer: layer.method is null ("") for a layer registered
\* under 'all', the lower-cased name otherwise
LayerMethod(name) == IF name # "all" THEN name ELSE ""

IdleRoute ==
    [pc |-> "idle", idx |-> 0, arg |-> NoErr, method |-> "", log |-> <<>>, out |-> NoErr]

RInit ==
    /\ rStack = <<>>
    /\ rReduce \in BOOLEAN
    /\ rCall = IdleRoute
    /\ rMethods = [recorded |-> {}, names |-> <<>>]

\* the middleware of layer li is called; err is the error it is given (NoErr
\* when it is called as (file, next)).  A kind that calls next before it
\* returns leaves pc = "next" with the argument of that call in arg.
RouteCall(c, li, err) ==
    LET fn   == rStack[li].handle
        seen == [c EXCEPT !.log = Append(@, [ev |-> "mw", li |-> li, err |-> err])]
    IN CASE fn = "async"   -> [seen EXCEPT !.pc = "timer"]
         [] fn = "err"     -> [seen EXCEPT !.pc = "next", !.arg = RouteErr(li)]
         [] fn = "throw"   -> [seen EXCEPT !.pc = "next", !.arg = RouteErr(li)]
         [] fn = "errthrow" -> [seen EXCEPT !.pc = "next", !.arg = RouteErr(li)]
         [] fn = "route"   -> [seen EXCEPT !.pc = "next", !.arg = SkipRoute]
         [] fn = "errpass" -> [seen EXCEPT !.pc = "next", !.arg = err]
         [] OTHER          -> [seen EXCEPT !.pc = "next", !.arg = NoErr]

\* Layer.prototype.handleFile(file, next) of layer li
RouteHandleFile(c, li) ==
    IF RouteArity(rStack[li].handle) > 2
    THEN [c EXCEPT !.pc = "next", !.arg = NoErr]
    ELSE RouteCall(c, li, NoErr)

\* a faulty variant of handleError: the middleware is called whatever its arity
RouteHandleErrorAlways(c, li) == RouteCall(c, li, c.arg)

\* Layer.prototype.handleError(err, file, next) of layer li
RouteHandleError(c, li) ==
    IF RouteArity(rStack[li].handle) < 3
    THEN [c EXCEPT !.pc = "next", !.arg = c.arg]
    ELSE RouteCall(c, li, c.arg)

\* a faulty variant of the test on the tag: no layer is passed over
TagExcludesNothing(layer, method) == FALSE

\* `layer.method && layer.method !== method`
TagExcludes(layer, method) ==
    LayerMethod(layer.name) # "" /\ LayerMethod(layer.name) # method

\* the function next(err) of Route.prototype.dispatch, run until the call
\* returns to the event loop; c.arg is err
RECURSIVE RouteNext(_)
RouteNext(c) ==
    IF c.arg = SkipRoute THEN [c EXCEPT !.pc = "done", !.out = NoErr]
    ELSE IF c.idx >= Len(rStack)
    THEN [c EXCEPT !.pc = "done", !.out = c.arg, !.idx = @ + 1]
    ELSE LET li == c.idx + 1
             c1 == [c EXCEPT !.idx = li]
         IN IF TagExcludes(rStack[li], c.method) THEN RouteNext(c1)
            ELSE LET c2 == IF c.arg # NoErr THEN RouteHandleError(c1, li)
                           ELSE RouteHandleFile(c1, li)
                 IN IF c2.pc = "next" THEN RouteNext(c2) ELSE c2

\* the reduce based Route.prototype.dispatch: layer.handle(file, cb) is
\* called on every layer in turn with two arguments, so that an error
\* handler finds its third parameter undefined and throws when it calls it;
\* what a middleware throws or passes to its callback ends the fold
RouteCallReduce(c, li) ==
    IF RouteArity(rStack[li].handle) > 2
    THEN [c EXCEPT !.log = Append(@, [ev |-> "mw", li |-> li, err |-> NoErr]),
                   !.pc = "next", !.arg = NotAFunction(li)]
    ELSE RouteCall(c, li, NoErr)

RECURSIVE RouteReduce(_)
RouteReduce(c) ==
    IF c.arg # NoErr THEN [c EXCEPT !.pc = "done", !.out = c.arg]
    ELSE IF c.idx >= Len(rStack) THEN [c EXCEPT !.pc = "done", !.out = NoErr]
    ELSE LET c2 == RouteCallReduce([c EXCEPT !.idx = @ + 1], c.idx + 1)
         IN IF c2.pc = "next" THEN RouteReduce(c2) ELSE c2

\* the dispatch of the route goes on after a call of next
RouteRun(c) == IF rReduce THEN RouteReduce(c) ELSE RouteNext(c)

\* name.toLowerCase() of the names of the model
toLowerCase(name) == IF name = "onLoad" THEN "onload" ELSE name

\* a faulty variant of MethodKey: the name is taken as given
MethodKeyAsGiven(name) == name

\* the key Route.prototype.layer records a name under: name.toLowerCase()
\* in the Route that dispatches with next, the name as given in the Route
\* that dispatches with reduce
MethodKey(name) == IF rReduce THEN name ELSE toLowerCase(name)

\* route.layer(name, fn), route.all(fn), route[name](fn): the key is set in
\* this.methods and the layer is pushed on this.stack
RouteLayer(name, fn) ==
    /\ rCall.pc = "idle"
    /\ Len(rStack) < MaxRouteLayers
    /\ rStack' = Append(rStack, [name |-> MethodKey(name), handle |-> fn])
    /\ rMethods' = [recorded |-> rMethods.recorded \cup {MethodKey(name)},
                    names    |-> Append(rMethods.names, name)]
    /\ UNCHANGED <<rReduce, rCall>>
    /\ UNCHANGED notR

\* route.dispatch(file, cb) on a file whose options.method is `method`
RouteDispatch(method) ==
    /\ rCall.pc = "idle"
    /\ rCall' = IF rStack = <<>> /\ ~rReduce
                THEN [IdleRoute EXCEPT !.pc = "done", !.method = method]
                ELSE RouteRun([IdleRoute EXCEPT !.pc = "next", !.method = method])
    /\ UNCHANGED <<rStack, rReduce, rMethods>>
    /\ UNCHANGED notR

\* the timer of an "async" middleware fires: it calls next()
RouteTimer ==
    /\ rCall.pc = "timer"
    /\ rCall' = RouteRun([rCall EXCEPT !.pc = "next", !.arg = NoErr])
    /\ UNCHANGED <<rStack, rReduce, rMethods>>
    /\ UNCHANGED notR

RNext ==
    \/ \E name \in RoutePhases \cup {"all"}, fn \in RouteKinds : RouteLayer(name, fn)
    \/ \E method \in FileMethods : RouteDispatch(method)
    \/ RouteTimer

\* the names layers are registered under when the case of a name matters
NamedPhases == {"before", "onLoad", "all"}

\* the callback based Route with names of mixed case
RNamesNext ==
    \/ \E name \in NamedPhases, fn \in {"next", "async"} : RouteLayer(name, fn)
    \/ RouteDispatch("before")
    \/ RouteTimer

(***************************************************************************)
(* The filter based Router: router.route(filter, ...fns) pushes a route    *)
(* that holds the array of its middleware, and router.dispatch(file, next) *)
(* runs the middleware of every route whose filter matches, route after    *)
(* route.  The middleware kinds are those of the callback based Route.     *)
(***************************************************************************)

\* the filters routes are created with, and the paths of dispatched pages
Filters == { <<"/", "a">>, <<"/", "b">> }
PagePaths == { <<"/", "a">> }

\* at most MaxDispatchRoutes routes, each with at most MaxDispatchFns middleware
MaxDispatchRoutes == 2
MaxDispatchFns == 2

DispatchFnLists == UNION { [1..n -> RouteKinds] : n \in 1..MaxDispatchFns }

\* the options pathRegex compiles a filter with: none given, so end is true
FilterOptions == [strict |-> FALSE, end |-> TRUE]

\* the error middleware j of route r passes to next or throws
DispatchErr(r, j) == [type |-> "route middleware", r |-> r, li |-> j]

IdleRouterCall ==
    [pc |-> "idle", i |-> 0, j |-> 0, arg |-> NoErr, path |-> <<>>,
     log |-> <<>>, out |-> NoErr]

DInit ==
    /\ dRoutes = <<>>
    /\ dCall = IdleRouterCall

\* Layer.prototype.matchStr(str) of route r
matchStr(r, str) == Exec(dRoutes[r].regexp, str).ok

\* Router.prototype._match(state, i): the first route at or after i whose
\* filter matches, 0 when there is none
RECURSIVE RouterMatch(_, _)
RouterMatch(path, i) ==
    IF i > Len(dRoutes) THEN 0
    ELSE IF matchStr(i, path) THEN i
    ELSE RouterMatch(path, i + 1)

\* a faulty variant of the test on the sentinel: 'route' is an error like another
IsNeverSentinel(err) == FALSE

\* err === 'route'
IsSentinel(err) == err = SkipRoute

\* a faulty variant of the start of a route: the error left by the routes
\* before it is dropped even when no route is left
LeftoverDropped(err) == NoErr

\* the error dispatch(i, err) hands to the final callback when no route is left
Leftover(err) == err

RECURSIVE RouterDispatch(_, _, _)
RECURSIVE callbacks(_)

\* middleware j of the matched route is applied; err is the error it is
\* given (NoErr when it is applied to the arguments and callbacks alone)
Apply(c, err) ==
    LET fn   == dRoutes[c.i].handle[c.j]
        seen == [c EXCEPT !.log = Append(@, [ev |-> "mw", r |-> c.i, j |-> c.j, err |-> err])]
    IN CASE fn = "async"   -> [seen EXCEPT !.pc = "timer"]
         [] fn = "err"     -> callbacks([seen EXCEPT !.arg = DispatchErr(c.i, c.j)])
         [] fn = "throw"   -> callbacks([seen EXCEPT !.arg = DispatchErr(c.i, c.j)])
         [] fn = "errthrow" -> callbacks([seen EXCEPT !.arg = DispatchErr(c.i, c.j)])
         [] fn = "route"   -> callbacks([seen EXCEPT !.arg = SkipRoute])
         [] fn = "errpass" -> callbacks([seen EXCEPT !.arg = err])
         [] OTHER          -> callbacks([seen EXCEPT !.arg = NoErr])

\* the function callbacks(err) of Router.prototype.dispatch; c.arg is err
callbacks(c) ==
    LET fns    == dRoutes[c.i].handle
        c1     == [c EXCEPT !.j = @ + 1]
        hasFn  == c1.j <= Len(fns)
    IN IF IsSentinel(c.arg) THEN RouterDispatch(c1, c.i + 1, NoErr)
       ELSE IF c.arg # NoErr /\ hasFn
       THEN IF RouteArity(fns[c1.j]) = 3 THEN Apply(c1, c.arg) ELSE callbacks(c1)
       ELSE IF hasFn
       THEN IF RouteArity(fns[c1.j]) = 2 THEN Apply(c1, NoErr)
            ELSE callbacks([c1 EXCEPT !.arg = NoErr])
       ELSE RouterDispatch(c1, c.i + 1, c.arg)

\* the function dispatch(i, err) of Router.prototype.dispatch: without a
\* matching route the final callback gets err; with one, its middleware are
\* run from the first by callbacks()
RouterDispatch(c, i, err) ==
    LET route == RouterMatch(c.path, i)
    IN IF route = 0 THEN [c EXCEPT !.pc = "done", !.out = Leftover(err)]
       ELSE callbacks([c EXCEPT !.i = route, !.j = 0, !.arg = NoErr])

\* router.route(filter, ...fns)
RouterRoute(filter, fns) ==
    /\ dCall.pc = "idle"
    /\ Len(dRoutes) < MaxDispatchRoutes
    /\ dRoutes' = Append(dRoutes, [filter |-> filter, handle |-> fns,
                                   regexp |-> stringToRegexp(filter, FilterOptions)])
    /\ UNCHANGED dCall
    /\ UNCHANGED notD

\* router.middleware(page, next) / router.dispatch(page, next)
RouterMiddleware(path) ==
    /\ dCall.pc = "idle"
    /\ dCall' = RouterDispatch([IdleRouterCall EXCEPT !.path = path], 1, NoErr)
    /\ UNCHANGED dRoutes
    /\ UNCHANGED notD

\* the timer of an "async" middleware fires: it calls callbacks()
RouterTimer ==
    /\ dCall.pc = "timer"
    /\ dCall' = callbacks([dCall EXCEPT !.pc = "idle", !.arg = NoErr])
    /\ UNCHANGED dRoutes
    /\ UNCHANGED notD

DNext ==
    \/ \E filter \in Filters, fns \in DispatchFnLists : RouterRoute(filter, fns)
    \/ \E path \in PagePaths : RouterMiddleware(path)
    \/ RouterTimer

(***************************************************************************)
(* Router.route of the promise based Router.                               *)
(*                                                                         *)
(* router.route(pattern) constructs a Router and defines on it one method  *)
(* for every handler name the router has at that moment; such a method     *)
(* registers its functions, under the pattern, with the constructed        *)
(* Router.  The handlers are functions that append their text to           *)
(* file.content and return no promise, and handle(file) is followed until  *)
(* the promise it returns has resolved.                                    *)
(***************************************************************************)

\* the handler names, the patterns and paths, and the texts handlers append
BoundMethods == {"before", "after"}
BoundPatterns == { <<"/", "a">>, <<"/", "b">>, <<"/", ":", "u">> }
BoundPaths == { <<"/", "a">>, <<"/", "b">> }
BoundFns == {"foo", "bar"}

\* at most MaxBoundRoutes routes are registered with each of the two routers
MaxBoundRoutes == 2

\* new Router(options): no methods and no routes; arrays records the calls
\* of a method with an array of patterns
NewRouter == [methods |-> <<>>, routes |-> <<>>, arrays |-> <<>>]

\* the number of routes registered with a router
RouteCount(router) ==
    Cardinality({<<m, i>> \in (DOMAIN router.routes) \X (1..MaxBoundRoutes) :
                    i <= Len(router.routes[m])})

BInit ==
    /\ bRouter = NewRouter
    /\ bBound = [made |-> FALSE, pattern |-> <<>>, keys |-> {}, router |-> NewRouter,
                 calls |-> <<>>]
    /\ bFile = [path |-> <<>>, content |-> <<>>]
    /\ bCalled = "none"

\* router.handler(method) for a string: the routes entry and the method name
WithHandler(router, method) ==
    [router EXCEPT
       !.methods = IF InSeq(method, router.methods) THEN router.methods
                   ELSE Append(router.methods, method),
       !.routes  = IF method \in DOMAIN router.routes THEN router.routes
                   ELSE Put(router.routes, method, <<>>)]

\* the function router.handler(method) returns, applied to (pattern, fn):
\* stack.add(new Route(pattern, fns, options))
WithRoute(router, method, pattern, fn) ==
    [router EXCEPT !.routes[method] = Append(@, [pattern |-> pattern, fn |-> fn])]

\* router.handler(method) on the router
BoundHandler(method) ==
    /\ bCalled = "none"
    /\ bRouter' = WithHandler(bRouter, method)
    /\ UNCHANGED <<bBound, bFile, bCalled>>
    /\ UNCHANGED notB

\* router[method](pattern, fn) on the router
BoundRegister(method, pattern, fn) ==
    /\ bCalled = "none"
    /\ InSeq(method, bRouter.methods)
    /\ bRouter' = WithRoute(bRouter, method, pattern, fn)
    /\ UNCHANGED <<bBound, bFile, bCalled>>
    /\ UNCHANGED notB

\* a faulty variant of WithRoutes: one route, for the first pattern only
WithRoutesOnce(router, method, patterns, fn) ==
    IF patterns = <<>> THEN router
    ELSE WithRoute(router, method, Head(patterns), fn)

\* the function router.handler(method) returns, applied to an array of
\* patterns: pattern.forEach(p => handler(p, ...fns))
RECURSIVE WithRoutes(_, _, _, _)
WithRoutes(router, method, patterns, fn) ==
    IF patterns = <<>> THEN router
    ELSE WithRoutes(WithRoute(router, method, Head(patterns), fn), method, Tail(patterns), fn)

\* router[method]([p, q], fn) on the router
BoundRegisterArray(method, patterns, fn) ==
    /\ bCalled = "none"
    /\ InSeq(method, bRouter.methods)
    /\ bRouter' = [WithRoutes(bRouter, method, patterns, fn) EXCEPT
                     !.arrays = Append(@, [method |-> method, patterns |-> patterns, fn |-> fn])]
    /\ UNCHANGED <<bBound, bFile, bCalled>>
    /\ UNCHANGED notB

\* router.route(pattern): a new Router with a method for each key of this.methods
BoundRoute(pattern) ==
    /\ bCalled = "none"
    /\ ~bBound.made
    /\ bBound' = [made |-> TRUE, pattern |-> pattern,
                  keys |-> {bRouter.methods[i] : i \in 1..Len(bRouter.methods)},
                  router |-> NewRouter, calls |-> <<>>]
    /\ UNCHANGED <<bRouter, bFile, bCalled>>
    /\ UNCHANGED notB

\* a Route constructed with no handler functions has no layers
NoFn == "<none>"

\* router.handler(key) was called on the constructed Router, and its
\* define(this, method, handler) has replaced the method route() defined
Rebound(router, key) == key \in DOMAIN router.routes

\* router[key](fn) on the constructed Router.  The method route() defined
\* calls router.handler(key)(pattern, ...fns); once router.handler(key) has
\* replaced it, the call is handler(fn): fn is taken for the pattern of a
\* Route without handler functions.  calls records the functions passed.
BoundChain(key, fn) ==
    /\ bCalled = "none"
    /\ bBound.made
    /\ key \in bBound.keys
    /\ bBound' = [bBound EXCEPT
                    !.router = IF Rebound(@, key)
                               THEN WithRoute(@, key, fn, NoFn)
                               ELSE WithRoute(WithHandler(@, key), key, bBound.pattern, fn),
                    !.calls = Append(@, fn)]
    /\ UNCHANGED <<bRouter, bFile, bCalled>>
    /\ UNCHANGED notB

\* Route.handle(file) of each route of a stack in turn: the layer of a route
\* whose pattern matches calls its function, which appends its text
RECURSIVE BoundRoutes(_, _, _)
BoundRoutes(stack, i, file) ==
    IF i > Len(stack) THEN file
    ELSE BoundRoutes(stack, i + 1,
                     IF stack[i].fn # NoFn /\ LayerMatch(stack[i].pattern, file.path).ok
                     THEN [file EXCEPT !.content = Append(@, stack[i].fn)]
                     ELSE file)

\* a faulty variant of Router.all(file): the methods are taken last to first
RECURSIVE BoundAllReversed(_, _, _)
BoundAllReversed(router, i, file) ==
    IF i > Len(router.methods) THEN file
    ELSE BoundRoutes(router.routes[router.methods[i]], 1,
                     BoundAllReversed(router, i + 1, file))

\* Router.all(file): handle(method, file) for each of this.methods in turn
RECURSIVE BoundAll(_, _, _)
BoundAll(router, i, file) ==
    IF i > Len(router.methods) THEN file
    ELSE BoundAll(router, i + 1, BoundRoutes(router.routes[router.methods[i]], 1, file))

\* handle(file) on the router or on the Router that route() returned
BoundHandle(on, path) ==
    /\ bCalled = "none"
    /\ on = "bound" => bBound.made
    /\ bCalled' = on
    /\ bFile' = BoundAll(IF on = "bound" THEN bBound.router ELSE bRouter, 1,
                         [path |-> path, content |-> <<>>])
    /\ UNCHANGED <<bRouter, bBound>>
    /\ UNCHANGED notB

BNext ==
    \/ \E method \in BoundMethods : BoundHandler(method)
    \/ \E method \in BoundMethods, pattern \in BoundPatterns, fn \in BoundFns :
          RouteCount(bRouter) < MaxBoundRoutes /\ BoundRegister(method, pattern, fn)
    \/ \E method \in BoundMethods, patterns \in BoundPatterns \X BoundPatterns, fn \in BoundFns :
          RouteCount(bRouter) + Len(patterns) <= MaxBoundRoutes
            /\ BoundRegisterArray(method, patterns, fn)
    \/ \E pattern \in BoundPatterns : BoundRoute(pattern)
    \/ \E key \in BoundMethods, fn \in BoundFns :
          RouteCount(bBound.router) < MaxBoundRoutes /\ BoundChain(key, fn)
    \/ \E on \in {"router", "bound"}, path \in BoundPaths : BoundHandle(on, path)

(***************************************************************************)
(* Layer.match of the promise based Layer on the pattern of the blog       *)
(* example, applied to paths of up to MaxSegments segments, with or        *)
(* without a trailing slash.                                               *)
(***************************************************************************)

BlogPattern == <<"/", "b", "l", "o", "g", "/", ":", "y", "e", "a", "r", "/", ":", "m", "o", "n", "t", "h", "/", ":", "d", "a", "y", "/", ":", "s", "l", "u", "g">>
BlogSegments == { <<"b", "l", "o", "g">>, <<"B", "l", "o", "g">>, <<"0", "4">>, <<"a", ".", "0">> }

\* a path has at most MaxSegments segments
MaxSegments == 6

\* the paths of exactly n segments
RECURSIVE PathsOf(_)
PathsOf(n) ==
    IF n = 0 THEN {<<>>}
    ELSE {path \o <<"/">> \o seg : path \in PathsOf(n - 1), seg \in BlogSegments}

BlogPaths ==
    LET plain == UNION {PathsOf(n) : n \in 0..MaxSegments}
    IN plain \cup {path \o <<"/">> : path \in plain \ {<<>>}}

NotApplied == [applied |-> FALSE, ok |-> FALSE, params |-> NoParams]

GInit ==
    /\ gPath \in BlogPaths
    /\ gMatch = NotApplied

\* new Layer(BlogPattern, fn).match(gPath)
BlogMatch ==
    /\ ~gMatch.applied
    /\ gMatch' = LET m == LayerMatch(BlogPattern, gPath)
                 IN [applied |-> TRUE, ok |-> m.ok, params |-> m.params]
    /\ UNCHANGED gPath
    /\ UNCHANGED notG

GNext == BlogMatch

(***************************************************************************)
(* A promise based Layer over its lifetime: constructed with a pattern,    *)
(* then matched against one path after another.  Its regex getter is       *)
(* evaluated by every read of layer.regex.                                 *)
(***************************************************************************)

\* the patterns layers are constructed with: a name written twice, the second
\* optional; a name written twice, the first optional; two names; no name; a
\* custom pattern that is no regular expression
LayerPatterns ==
    { <<"/", ":", "u", "/", ":", "u", "?">>,
      <<"/", ":", "u", "?", "/", "b", "/", ":", "u">>,
      <<"/", ":", "u", "/", ":", "m", "?">>,
      <<"/", "a">>,
      <<"/", ":", "u", "(", "*", ")">> }

LayerSegments == { <<"a">>, <<"b">> }

\* a matched path has at most MaxLayerSegments segments, and a layer is
\* matched at most MaxMatchCalls times
MaxLayerSegments == 3
MaxMatchCalls == 2

RECURSIVE LayerPathsOf(_)
LayerPathsOf(n) ==
    IF n = 0 THEN {<<>>}
    ELSE {path \o <<"/">> \o seg : path \in LayerPathsOf(n - 1), seg \in LayerSegments}

LayerPaths ==
    LET plain == UNION {LayerPathsOf(n) : n \in 0..MaxLayerSegments}
    IN plain \cup {path \o <<"/">> : path \in plain \ {<<>>}}

\* no layer constructed yet
NoLayer == [made |-> FALSE, pattern |-> <<>>, compiles |-> 0]

LInit ==
    /\ lLayer = NoLayer
    /\ lLog = <<>>

\* new Layer(pattern, fn), as the method of a handler name does for each of
\* its functions when a route is registered: the pattern is stored, nothing
\* is compiled and nothing is thrown for a function fn
NewLayer(pattern) ==
    /\ ~lLayer.made
    /\ lLayer' = [made |-> TRUE, pattern |-> pattern, compiles |-> 0]
    /\ UNCHANGED lLog
    /\ UNCHANGED notL

\* the reads of layer.regex that one layer.match(filepath) makes: none for an
\* empty path, one for exec, and one more per capture for regex.keys
RegexReads(re, filepath) ==
    IF filepath = <<>> THEN 0
    ELSE IF NothingToRepeat(SourceOf(re)) THEN 1
    ELSE LET m == Exec(re, filepath)
         IN IF m.ok THEN 1 + Len(m.caps) ELSE 1

\* layer.match(filepath), as layer.handle(file) calls it during a dispatch;
\* the getter compiles a string pattern on every read, and the call throws
\* when the compilation does
LayerMatchCall(filepath) ==
    /\ lLayer.made
    /\ Len(lLog) < MaxMatchCalls
    /\ LET re       == LayerRegex(lLayer.pattern)
           threw    == filepath # <<>> /\ NothingToRepeat(SourceOf(re))
           m        == IF threw THEN [ok |-> FALSE, params |-> NoParams]
                       ELSE LayerMatchWith(re, filepath)
           compiled == RegexReads(re, filepath)
       IN /\ lLayer' = [lLayer EXCEPT !.compiles = @ + compiled]
          /\ lLog' = Append(lLog, [path     |-> filepath,
                                   threw    |-> threw,
                                   ok       |-> m.ok,
                                   params   |-> m.params,
                                   caps     |-> IF m.ok THEN Exec(re, filepath).caps ELSE <<>>,
                                   compiled |-> compiled])
    /\ UNCHANGED notL

LNext ==
    \/ \E pattern \in LayerPatterns : NewLayer(pattern)
    \/ \E filepath \in LayerPaths : LayerMatchCall(filepath)

(***************************************************************************)
(* pathToRegexp applied to strings, regular expressions and arrays.        *)
(***************************************************************************)

\* the strings with a backslash: an escaped delimiter before a placeholder, an
\* escaped letter and then a delimiter before a placeholder, and an escaped
\* delimiter after a placeholder
EscapedStrings ==
    { <<"\\", "/", ":", "u">>, <<"\\", "a", "/", ":", "u", "?">>, <<"/", ":", "u", "\\", ".", ":", "m">>,
      <<"/", "a", "\\", ".", "b", "/", ":", "u">> }

CompiledStrings ==
    { <<>>, <<"/", "a">>, <<"/", ":", "u">>, <<"/", ":", "u", "/", ":", "m", "?">>, <<"/", ":", "u", "+">>, <<"/", ":", "u", "*">>, <<"/", ":", "u", "?", ".", "b">> }
    \cup EscapedStrings

\* the sources of the regular expressions: a group, a non-capturing group and
\* a group, escaped parentheses, a parenthesis in a character class, a named
\* group, and two groups
CompiledRegExps ==
    { <<"\\", "/", "(", "a", ")">>, <<"\\", "/", "(", "?", ":", "a", ")", "\\", "/", "(", "b", ")">>, <<"\\", "/", "\\", "(", "a", "\\", ")">>, <<"\\", "/", "[", "(", "]", "a">>, <<"\\", "/", "(", "?", "<", "u", ">", "a", ")">>, <<"\\", "/", "(", ".", "*", "?", ")", "\\", "/", "(", "b", "b", "b", ")">> }

ArrayElements ==
    { StringPattern(<<"/", ":", "u", "/", ":", "m", "?">>), StringPattern(<<"/", ":", "u", "/", "a">>), RegExpPattern(<<"\\", "/", "(", "a", ")">>), RegExpPattern(<<"\\", "/", "\\", "(", "a", "\\", ")">>) }

\* an array pattern has at most MaxElements elements
MaxElements == 2

CompiledPatterns ==
    {StringPattern(str) : str \in CompiledStrings}
    \cup {RegExpPattern(source) : source \in CompiledRegExps}
    \cup {ArrayPattern(elements) : elements \in UNION {[1..n -> ArrayElements] : n \in 0..MaxElements}}

CompileOptions == [end : BOOLEAN, strict : BOOLEAN]

NotCompiled ==
    [done |-> FALSE, options |-> LayerOptions, source |-> <<>>, keys |-> <<>>,
     tokens |-> <<>>, tested |-> FALSE, path |-> <<>>, accepted |-> FALSE]

CInit ==
    /\ cPattern \in CompiledPatterns
    /\ cOut = NotCompiled

\* the regex and the keys pathToRegexp made, as recorded
Made(out, options, made) ==
    [out EXCEPT !.done = TRUE, !.options = options,
                !.source = made.source, !.keys = made.keys]

\* the tokens stringToRegexp has parse make of a string pattern
Parsed(val) == IF val.kind = "string" THEN parse(val.str) ELSE <<>>

\* pathToRegexp(cPattern, keys = [], options)
Compile(options) ==
    /\ ~cOut.done
    /\ cOut' = [Made(cOut, options, pathToRegexp(cPattern, options)) EXCEPT
                  !.tokens = Parsed(cPattern)]
    /\ UNCHANGED cPattern
    /\ UNCHANGED notC

\* the paths compiled patterns are run on, with and without a leading slash
CompiledPaths == LayerPaths \cup { <<"a">>, <<"a", "/", "b">> }

\* the regex of a string pattern run on a path: exec(path) !== null
AcceptsString(val, options, path) == Exec(stringToRegexp(val.str, options), path).ok

\* the regex of the pattern run on a path: every alternative of an array of
\* strings starts with ^, and the alternation of no part, (?:), matches the
\* empty string at the start of any path
Accepts(val, options, path) ==
    IF val.kind = "array"
    THEN \/ val.elements = <<>>
         \/ \E i \in 1..Len(val.elements) : AcceptsString(val.elements[i], options, path)
    ELSE AcceptsString(val, options, path)

\* the patterns whose regex is built from strings only
OfStrings(val) ==
    IF val.kind = "array"
    THEN \A i \in 1..Len(val.elements) : val.elements[i].kind = "string"
    ELSE val.kind = "string"

\* pathToRegexp(cPattern, keys, options).exec(path)
ExecCompiled(path) ==
    /\ cOut.done
    /\ ~cOut.tested
    /\ OfStrings(cPattern)
    /\ cOut' = [cOut EXCEPT !.tested = TRUE, !.path = path,
                            !.accepted = Accepts(cPattern, cOut.options, path)]
    /\ UNCHANGED cPattern
    /\ UNCHANGED notC

CNext ==
    \/ \E options \in CompileOptions : Compile(options)
    \/ \E path \in CompiledPaths : ExecCompiled(path)

(***************************************************************************)
(* The callback based Router that walks its stack with async-array-reduce. *)
(* A layer is a mount (router.use) or a route of one layer                 *)
(* (router[method](path, fn)).  Layer.handle wraps the handler in a        *)
(* promise and calls next from a reaction of that promise.  The handler    *)
(* kinds: "next" calls next(), "err" calls next(err), "throw" throws, and  *)
(* "async" calls next() from a timer.  The paths carry no placeholder, so  *)
(* processParams finds no key and calls back at once.                      *)
(***************************************************************************)

ReducePatterns == { <<"/">>, <<"/", "a">> }
ReduceFilePaths == { <<"/", "a">>, <<"/", "a", "/", "b">> }
ReduceKinds == {"next", "err", "throw", "async"}
ReduceMethods == {"all", "before"}

\* at most MaxReduceLayers layers are pushed on the stack
MaxReduceLayers == 2

\* the error a middleware passes to next or throws
ReduceErr == [type |-> "mw", r |-> 0, li |-> 0]
\* new TypeError('expected a string, but received ...') of handlesMethod
ExpectedString == [type |-> "expected a string", r |-> 0, li |-> 0]

IdleReduce ==
    [pc |-> "idle", i |-> 0, method |-> NoMethod,
     path |-> <<>>, parentPath |-> <<>>,          \* file.path, file.options.parentPath
     entryPath |-> <<>>, entryParent |-> <<>>,    \* their values on entry to handle
     slashAdded |-> FALSE, removed |-> <<>>,
     promised |-> FALSE,                          \* the code runs in a reaction of a promise
     err |-> NoErr, cbPath |-> <<>>, cbParent |-> <<>>]

HInit ==
    /\ hStack = <<>>
    /\ hCall = IdleReduce

\* router.use(path, fn): new Layer(path, {}, fn)
ReduceUse(path, fn) ==
    /\ hCall.pc = "idle"
    /\ hStack' = Append(hStack, [route |-> FALSE, methods |-> {}, fn |-> fn,
                                 regexp |-> stringToRegexp(path, UseOptions)])
    /\ UNCHANGED hCall
    /\ UNCHANGED notH

\* router[method](path, fn): router.route(path) pushes new Layer(path, { end: true },
\* route.dispatch) and route[method](fn) sets route.methods[method]
ReduceRoute(path, method, fn) ==
    /\ hCall.pc = "idle"
    /\ hStack' = Append(hStack, [route |-> TRUE, methods |-> {method}, fn |-> fn,
                                 regexp |-> stringToRegexp(path, [strict |-> FALSE, end |-> TRUE])])
    /\ UNCHANGED hCall
    /\ UNCHANGED notH

\* route.handlesMethod(method): "true", "false" or "throw"
handlesMethod(methods, method) ==
    IF "all" \in methods THEN "true"
    ELSE IF method = NoMethod THEN "throw"
    ELSE IF method \in methods THEN "true" ELSE "false"

\* the callback of reduce in router.handle: cb(err, file)
ReduceCallback(c, err) ==
    [c EXCEPT !.pc = "done", !.err = err, !.cbPath = c.path, !.cbParent = c.parentPath]

\* the head of the iteratee: the slash added and the prefix removed for the
\* previous layer are undone
ReduceRestore(c) ==
    LET path1 == IF c.slashAdded THEN Tail(c.path) ELSE c.path
    IN IF c.removed # <<>>
       THEN [c EXCEPT !.slashAdded = FALSE, !.parentPath = c.entryParent,
                      !.path = c.removed \o path1, !.removed = <<>>]
       ELSE [c EXCEPT !.slashAdded = FALSE, !.path = path1]

\* a mount: the part of file.path the layer matched is removed, a leading
\* slash is ensured and parentPath is extended
ReduceTrim(c, layerPath) ==
    LET stripped == Substr(c.path, Len(layerPath))
        slash    == stripped = <<>> \/ stripped[1] # "/"
        base     == IF layerPath[Len(layerPath)] = "/"
                    THEN Slice(layerPath, 0, Len(layerPath) - 1)
                    ELSE layerPath
    IN [c EXCEPT !.removed = layerPath,
                 !.path = IF slash THEN <<"/">> \o stripped ELSE stripped,
                 !.slashAdded = slash,
                 !.parentPath = c.entryParent \o base]

RECURSIVE ReduceFrom(_)

\* layer.handle(file, next): the handler runs in the executor of a promise
\* whose reactions call next
ReduceLayerHandle(c, fn) ==
    LET c2 == [c EXCEPT !.promised = TRUE]
    IN CASE fn = "next"  -> ReduceFrom([c2 EXCEPT !.i = @ + 1])
         [] fn = "async" -> [c2 EXCEPT !.pc = "waiting"]
         [] OTHER        -> ReduceCallback(c2, ReduceErr)

\* reduce(stack, [], iteratee, callback) from layer c.i on; an exception of
\* the iteratee reaches the caller of handle, or, in a reaction, nobody
ReduceFrom(c) ==
    IF c.i > Len(hStack) THEN ReduceCallback(c, NoErr)
    ELSE LET layer   == hStack[c.i]
             c2      == ReduceRestore(c)
             m       == Exec(layer.regexp, c2.path)
             handles == IF layer.route THEN handlesMethod(layer.methods, c2.method) ELSE "true"
         IN IF c2.path = <<>> \/ ~m.ok THEN ReduceFrom([c2 EXCEPT !.i = @ + 1])
            ELSE IF handles = "throw"
            THEN [c2 EXCEPT !.pc = IF c2.promised THEN "lost" ELSE "thrown",
                            !.err = ExpectedString]
            ELSE IF handles = "false" THEN ReduceFrom([c2 EXCEPT !.i = @ + 1])
            ELSE IF layer.route THEN ReduceLayerHandle(c2, layer.fn)
            ELSE ReduceLayerHandle(ReduceTrim(c2, Slice(c2.path, 0, m.len)), layer.fn)

\* router.handle(file, cb) for a file { path, options: { method } }
ReduceHandle(path, method) ==
    /\ hCall.pc = "idle"
    /\ hCall' = ReduceFrom([IdleReduce EXCEPT !.pc = "running", !.i = 1, !.method = method,
                                              !.path = path, !.entryPath = path])
    /\ UNCHANGED hStack
    /\ UNCHANGED notH

\* the timer of an "async" handler fires: it calls next()
ReduceTimer ==
    /\ hCall.pc = "waiting"
    /\ hCall' = ReduceFrom([hCall EXCEPT !.pc = "running", !.i = @ + 1])
    /\ UNCHANGED hStack
    /\ UNCHANGED notH

HNext ==
    \/ \E path \in ReducePatterns, fn \in ReduceKinds :
          Len(hStack) < MaxReduceLayers /\ ReduceUse(path, fn)
    \/ \E path \in ReducePatterns, method \in ReduceMethods, fn \in ReduceKinds :
          Len(hStack) < MaxReduceLayers /\ ReduceRoute(path, method, fn)
    \/ \E path \in ReduceFilePaths, method \in {"before", NoMethod} : ReduceHandle(path, method)
    \/ ReduceTimer

(***************************************************************************)
(* The callback based Layers that store params and path, over their        *)
(* lifetime.  Three Layers do: "first", the function Layer(filepath, fn,   *)
(* options) that compiles its pattern when constructed and has no test of  *)
(* an empty path; "fast", the function Layer(path, options, handler) with  *)
(* fast_slash; and "lazy", the class Layer whose regexp getter compiles    *)
(* the pattern on its first read.                                          *)
(***************************************************************************)

StoredKinds == {"first", "fast", "lazy"}
StoredPatterns == { <<"/">>, <<"/", "a">>, <<"/", ":", "u">>, <<"/", ":", "u", "/", ":", "m", "?">> }
StoredOptions == { [strict |-> FALSE, end |-> FALSE], [strict |-> FALSE, end |-> TRUE] }

\* the paths the layers are matched against: those of LayerPaths, the empty
\* path among them, and one without a leading slash
StoredPaths == LayerPaths \cup { <<"a">> }

\* a layer is matched at most MaxStoredCalls times
MaxStoredCalls == 2

\* no layer constructed yet
NoStored == [made |-> FALSE, kind |-> "", pattern |-> <<>>, options |-> LayerOptions,
             regexp |-> LayerRegex(<<>>), fields |-> [params |-> NoParams, path |-> <<>>],
             log |-> <<>>]

SInit == sLayer = NoStored

\* the constructors: this.path = path; this.params is undefined in the first
\* Layer and {} in the two others
NewStored(kind, pattern, options) ==
    /\ ~sLayer.made
    /\ sLayer' = [made |-> TRUE, kind |-> kind, pattern |-> pattern, options |-> options,
                  regexp |-> stringToRegexp(pattern, options),
                  fields |-> [params |-> IF kind = "first" THEN UndefinedParams ELSE NoParams,
                              path |-> pattern],
                  log |-> <<>>]
    /\ UNCHANGED notS

\* Layer.prototype.match(filepath) of the first Layer: a path that does not
\* match sets this.params and this.path to undefined
matchFirst(layer, fields, path) ==
    LET m == Exec(layer.regexp, path)
    IN IF ~m.ok THEN [result |-> "false", fields |-> [params |-> UndefinedParams, path |-> UNDEF]]
       ELSE LET l == MatchLoop(LayerKeys(layer), m.caps, 1, 0, NoParams)
            IN [result |-> IF l.ok THEN "true" ELSE "throw",
                fields |-> [params |-> l.params, path |-> Slice(path, 0, m.len)]]

\* the loop of match of the class Layer over the captures: the values are
\* stored as captured, an unnamed key takes the next ordinal
RECURSIVE LazyLoop(_, _, _, _, _)
LazyLoop(keys, caps, i, n, params) ==
    IF i > Len(caps) THEN params
    ELSE LET named == i <= Len(keys) /\ keys[i].name # <<>>
             prop  == IF named THEN keys[i].name ELSE Ordinal(n)
         IN LazyLoop(keys, caps, i + 1, IF named THEN n ELSE n + 1,
                     IF caps[i] # UNDEF \/ ~HasOwn(params, prop)
                     THEN Put(params, prop, caps[i])
                     ELSE params)

\* match(path) of the class Layer
matchLazy(layer, fields, path) ==
    IF path = <<>> THEN [result |-> "false", fields |-> fields]
    ELSE LET m == Exec(layer.regexp, path)
         IN IF ~m.ok THEN [result |-> "false", fields |-> fields]
            ELSE [result |-> "true",
                  fields |-> [params |-> LazyLoop(LayerKeys(layer), m.caps, 1, 0, NoParams),
                              path |-> Slice(path, 0, m.len)]]

\* layer.match(path) of the layer constructed
StoredMatch(path) ==
    /\ sLayer.made
    /\ Len(sLayer.log) < MaxStoredCalls
    /\ LET out == CASE sLayer.kind = "first" -> matchFirst(sLayer, sLayer.fields, path)
                    [] sLayer.kind = "fast"  -> match(sLayer, sLayer.fields, path)
                    [] OTHER                 -> matchLazy(sLayer, sLayer.fields, path)
       IN sLayer' = [sLayer EXCEPT
                       !.fields = out.fields,
                       !.log = Append(@, [path |-> path, result |-> out.result,
                                          before |-> sLayer.fields, after |-> out.fields])]
    /\ UNCHANGED notS

SNext ==
    \/ \E kind \in StoredKinds, pattern \in StoredPatterns, options \in StoredOptions :
          NewStored(kind, pattern, options)
    \/ \E path \in StoredPaths : StoredMatch(path)

(***************************************************************************)
(* mergeParams of the callback based routers.  A router constructed with   *)
(* options.mergeParams sets file.options.params to mergeParams(            *)
(* layer.params, parentParams), where parentParams is the object           *)
(* file.options.params held when handle was entered; when the nested       *)
(* dispatch returns, restore sets file.options.params to parentParams      *)
(* again.  Two versions: "mixin" ends with mixin(parent, params), "assign" *)
(* with Object.assign({}, parent, params).  A params object is a function  *)
(* from keys to values, a numeric key n being Ordinal(n).                  *)
(***************************************************************************)

MergeVersions == {"mixin", "assign"}

\* the params a layer captured: none, a name, one, two or three anonymous
\* captures, and a name with an anonymous capture
MergedLayerParams ==
    { NoParams,
      Put(NoParams, <<"u">>, <<"b">>),
      Put(NoParams, Ordinal(0), <<"b">>),
      Put(Put(NoParams, Ordinal(0), <<"b">>), Ordinal(1), <<"c">>),
      Put(Put(NoParams, Ordinal(0), <<"b">>), <<"u">>, <<"c">>) }

\* the params of the parent router: undefined, none, a name, the same name as
\* the layer, one and two anonymous captures
MergedParentParams ==
    { UndefinedParams,
      NoParams,
      Put(NoParams, <<"m">>, <<"a">>),
      Put(NoParams, <<"u">>, <<"a">>),
      Put(NoParams, Ordinal(0), <<"a">>),
      Put(Put(NoParams, Ordinal(0), <<"a">>), Ordinal(1), <<"d">>) }

\* no call made yet
NoMerge ==
    [pc |-> "idle", version |-> "", params |-> NoParams, parent |-> NoParams,
     out |-> [hangs |-> FALSE, is |-> "", result |-> NoParams,
              params |-> NoParams, parent |-> NoParams],
     seen |-> NoParams]

KInit == kMerge = NoMerge

\* n in obj
HasIndex(n, obj) == Ordinal(n) \in DOMAIN obj

\* delete obj[key]
Delete(obj, key) == [x \in DOMAIN obj \ {key} |-> obj[x]]

\* mixin(a, b) and Object.assign(a, b): the properties of b are set on a
mixin(a, b) == [x \in DOMAIN a \cup DOMAIN b |-> IF x \in DOMAIN b THEN b[x] ELSE a[x]]

\* `while (i === o || o in parent) { if (i in params) i++; if (o in parent) o++; }`:
\* the loop never ends once i equals o and neither index is a key
RECURSIVE NumericGaps(_, _, _, _)
NumericGaps(params, parent, i, o) ==
    IF ~(i = o \/ HasIndex(o, parent)) THEN [hangs |-> FALSE, i |-> i, o |-> o]
    ELSE LET i2 == IF HasIndex(i, params) THEN i + 1 ELSE i
             o2 == IF HasIndex(o, parent) THEN o + 1 ELSE o
         IN IF i2 = i /\ o2 = o THEN [hangs |-> TRUE, i |-> i, o |-> o]
            ELSE NumericGaps(params, parent, i2, o2)

\* `for (i--; i >= 0; i--) { params[i + o] = params[i]; if (i < o) delete params[i]; }`
\* on the params object itself
RECURSIVE OffsetIndices(_, _, _)
OffsetIndices(params, i, o) ==
    IF i < 0 THEN params
    ELSE LET moved == Put(params, Ordinal(i + o), params[Ordinal(i)])
         IN OffsetIndices(IF i < o THEN Delete(moved, Ordinal(i)) ELSE moved, i - 1, o)

\* the last statement of mergeParams: `return mixin(parent, params)` sets the
\* properties on the parent object and returns it,
\* `return Object.assign({}, parent, params)` returns a new object
MergedInto(version, parent, params) ==
    IF version = "mixin"
    THEN [is |-> "parent", result |-> mixin(parent, params), parent |-> mixin(parent, params)]
    ELSE [is |-> "new", result |-> mixin(parent, params), parent |-> parent]

\* mergeParams(params, parent): what is returned (result, and which object it
\* is: the params object, the parent object or a new one), the two
\* arguments as the call leaves them, and whether the call never returns
mergeParams(version, params, parent) ==
    IF parent = UndefinedParams
    THEN [hangs |-> FALSE, is |-> "params", result |-> params, params |-> params, parent |-> parent]
    ELSE IF ~HasIndex(0, params) \/ ~HasIndex(0, parent)
    THEN [hangs |-> FALSE, is |-> "new", result |-> mixin(mixin(NoParams, parent), params),
          params |-> params, parent |-> parent]
    ELSE LET g == NumericGaps(params, parent, 0, 0)
         IN IF g.hangs
            THEN [hangs |-> TRUE, is |-> "", result |-> NoParams, params |-> params, parent |-> parent]
            ELSE LET offset == OffsetIndices(params, g.i - 1, g.o)
                     m      == MergedInto(version, parent, offset)
                 IN [hangs |-> FALSE, is |-> m.is, result |-> m.result,
                     params |-> offset, parent |-> m.parent]

\* the nested router reaches a layer that matched with params, parent being
\* the params object of the parent router: file.options.params =
\* mergeParams(layer.params, parentParams)
MergeCall(version, params, parent) ==
    /\ kMerge.pc = "idle"
    /\ LET out == mergeParams(version, params, parent)
       IN kMerge' = [pc |-> IF out.hangs THEN "hung" ELSE "merged", version |-> version,
                     params |-> params, parent |-> parent, out |-> out, seen |-> NoParams]
    /\ UNCHANGED notK

\* the nested dispatch returns: restore sets file.options.params to
\* parentParams, the parent object as the call left it
MergeReturn ==
    /\ kMerge.pc = "merged"
    /\ kMerge' = [kMerge EXCEPT !.pc = "returned", !.seen = kMerge.out.parent]
    /\ UNCHANGED notK

KNext ==
    \/ \E version \in MergeVersions, params \in MergedLayerParams, parent \in MergedParentParams :
          MergeCall(version, params, parent)
    \/ MergeReturn

(***************************************************************************)
(* Specifications.                                                         *)
(***************************************************************************)

Init == PInit /\ MInit /\ RInit /\ DInit /\ BInit /\ GInit /\ LInit /\ CInit /\ HInit /\ SInit /\ KInit

\* the promise based router
PromiseInit == Init /\ ~pSync /\ ~rReduce /\ gPath = <<>> /\ cPattern = StringPattern(<<>>)
Spec == PromiseInit /\ [][PNext]_vars

\* the callback based Layers that store params and path
StoredInit == Init /\ ~pParallel /\ ~pSync /\ ~rReduce /\ gPath = <<>> /\ cPattern = StringPattern(<<>>)
SpecStored == StoredInit /\ [][SNext]_vars

\* mergeParams of the callback based routers
SpecMerge == StoredInit /\ [][KNext]_vars

\* the promise based router called with handler names of any type
SpecNames == PromiseInit /\ [][PNamesNext]_vars

\* the promise based router constructed with options.sync
SyncInit == Init /\ pSync /\ ~rReduce /\ gPath = <<>> /\ cPattern = StringPattern(<<>>)
SpecSync == SyncInit /\ [][PSyncNext]_vars

\* the callback based router
MatchInit == Init /\ ~pParallel /\ ~pSync /\ ~rReduce /\ gPath = <<>> /\ cPattern = StringPattern(<<>>)
SpecMatch == MatchInit /\ [][MNext]_vars

\* the callback based router with a deeper stack
SpecMatchDeep == MatchInit /\ [][MDeepNext]_vars

\* the callback based router with mounts that capture two names
SpecMatchKeys == MatchInit /\ [][MKeysNext]_vars

\* the callback based router with routes on its stack
SpecMatchRouted == MatchInit /\ [][MRoutedNext]_vars

\* the callback based Route
RouteInit == Init /\ ~pParallel /\ ~pSync /\ gPath = <<>> /\ cPattern = StringPattern(<<>>)
SpecRoute == RouteInit /\ [][RNext]_vars

\* the callback based Route with names of mixed case
SpecRouteNames == RouteInit /\ [][RNamesNext]_vars

\* the filter based Router
DispatchInit == Init /\ ~pParallel /\ ~pSync /\ ~rReduce /\ gPath = <<>> /\ cPattern = StringPattern(<<>>)
SpecDispatch == DispatchInit /\ [][DNext]_vars

\* Router.route of the promise based router
BoundInit == Init /\ ~pParallel /\ ~pSync /\ ~rReduce /\ gPath = <<>> /\ cPattern = StringPattern(<<>>)
SpecBound == BoundInit /\ [][BNext]_vars

\* Layer.match on the pattern of the blog example
BlogInit == Init /\ ~pParallel /\ ~pSync /\ ~rReduce /\ cPattern = StringPattern(<<>>)
SpecBlog == BlogInit /\ [][GNext]_vars

\* a promise based Layer matched against one path after another
LayerInit == Init /\ ~pParallel /\ ~pSync /\ ~rReduce /\ gPath = <<>> /\ cPattern = StringPattern(<<>>)
SpecLayer == LayerInit /\ [][LNext]_vars

\* pathToRegexp
CompileInit == Init /\ ~pParallel /\ ~pSync /\ ~rReduce /\ gPath = <<>>
SpecCompile == CompileInit /\ [][CNext]_vars

\* the Router that walks its stack with reduce; timers fire and reactions run
ReduceInit == Init /\ ~pParallel /\ ~pSync /\ ~rReduce /\ gPath = <<>> /\ cPattern = StringPattern(<<>>)
SpecReduce == ReduceInit /\ [][HNext]_vars
SpecReduceFair == SpecReduce /\ WF_vars(ReduceTimer)

(***************************************************************************)
(* Properties of the promise based Route and Router.                       *)
(***************************************************************************)

\* the "start" events of route r, in the order they happened
StartsOf(r) == SelectSeq(pLog, LAMBDA e : e.ev = "start" /\ e.r = r)

\* event ev of handler li of route r happened strictly between log positions i and j
Between(ev, r, li, i, j) ==
    \E k \in (i + 1)..(j - 1) : pLog[k] = Ev(ev, r, li)

\* the number of times event ev of handler li of route r happened
Count(ev, r, li) == Cardinality({k \in 1..Len(pLog) : pLog[k] = Ev(ev, r, li)})

\* the position of the phase of route r in the order the names were registered
PhaseIdx(r) == CHOOSE i \in 1..Len(pMethods) : pMethods[i] = pRouteTab[r].method

C2_ErrorStopsRoute ==
    \A j \in 1..Len(pLog) :
        pLog[j].ev = "fail" =>
            /\ \A k \in (j + 1)..Len(pLog) : pLog[k].r # pLog[j].r
            /\ pTask[pLog[j].r].state = "rejected"
            /\ pTask[pLog[j].r].err = HandlerErr(pLog[j].r, pLog[j].li)

\* the first handler of a route of two layers rejected the promise it returned
C2_Witness ==
    \E r \in DOMAIN pTask :
        /\ pTask[r].state = "rejected"
        /\ pTask[r].at = 1
        /\ pRouteTab[r].fns = <<"async", "sync">>
        /\ pLog # <<>> /\ pLog[Len(pLog)] = Ev("fail", r, 1)

\* C3: in series mode (neither options.parallel nor options.sync) Router.all
\* runs the phases in the order their names were registered: no handler of an earlier phase is invoked after one of a
\* later phase, every handler of an earlier phase that was invoked has
\* finished before a handler of a later phase is invoked, and when the
\* promise resolves every handler whose pattern matches has finished.
C3_AllInSeries ==
    (pTop.kind = "all" /\ ~pParallel /\ ~pSync) =>
        /\ \A j \in 1..Len(pLog) :
             pLog[j].ev = "start" =>
                 \A i \in 1..(j - 1) :
                     /\ PhaseIdx(pLog[i].r) <= PhaseIdx(pLog[j].r)
                     /\ (pLog[i].ev = "start" /\ PhaseIdx(pLog[i].r) < PhaseIdx(pLog[j].r))
                           => Between("end", pLog[i].r, pLog[i].li, i, j)
        /\ pAll.state = "resolved" =>
             \A r \in DOMAIN pTask : \A li \in 1..Len(pRouteTab[r].fns) :
                 LayerHandles(r) => Count("end", r, li) = 1

\* Router.all resolved in series mode after two phases each ran a handler that
\* returned a promise
C3_Witness ==
    /\ pTop.kind = "all" /\ ~pParallel /\ ~pSync /\ pAll.state = "resolved"
    /\ Len(pLog) = 4
    /\ pLog[1].ev = "start" /\ pLog[3].ev = "start"
    /\ pRouteTab[pLog[1].r].method # pRouteTab[pLog[3].r].method
    /\ pRouteTab[pLog[1].r].fns = <<"async">>
    /\ pRouteTab[pLog[3].r].fns = <<"async">>

\* C7: in parallel mode, when the promise of Router.all has resolved, every
\* handler of every registered phase whose pattern matches the file has been
\* invoked exactly once and has finished exactly once.
C7_ParallelAllComplete ==
    (pTop.kind = "all" /\ pParallel /\ pAll.state = "resolved") =>
        \A r \in DOMAIN pTask : \A li \in 1..Len(pRouteTab[r].fns) :
            LayerHandles(r) =>
                /\ Count("start", r, li) = 1
                /\ Count("end", r, li) = 1
                /\ Cardinality({k \in 1..Len(pFile.names) : pFile.names[k] = <<r, li>>}) = 1

\* Router.all resolved in parallel mode with two phases whose handlers
\* returned promises, the later phase's handler finishing first
C7_Witness ==
    /\ pTop.kind = "all" /\ pParallel /\ pAll.state = "resolved"
    /\ Len(pMethods) = 2 /\ Len(pRouteTab) = 2
    /\ pRouteTab[1].method = pMethods[1] /\ pRouteTab[2].method = pMethods[2]
    /\ pRouteTab[1].fns = <<"async">> /\ pRouteTab[2].fns = <<"async">>
    /\ pFile.names = << <<2, 1>>, <<1, 1>> >>

C9_OnlyThePhase ==
    pTop.kind = "handle" =>
        /\ \A j \in 1..Len(pLog) : pRouteTab[pLog[j].r].method = pTop.method
        /\ \A r \in DOMAIN pTask :
             pRouteTab[r].method # pTop.method => pTask[r].state = "none"

\* handle(phase, file) resolved after running a handler while another phase
\* holds a route whose pattern matches the file too
C9_Witness ==
    /\ pTop.kind = "handle" /\ pHandle[pTop.method].state = "resolved"
    /\ pLog # <<>>
    /\ \E r \in DOMAIN pTask :
         /\ pRouteTab[r].method # pTop.method
         /\ LayerHandles(r) /\ pRouteTab[r].fns # <<>>

\* the handlers that were invoked, <<route, layer>>, in the order of invocation
InvokedHandlers ==
    LET got == SelectSeq(pLog, LAMBDA e : e.ev = "start")
    IN [i \in 1..Len(got) |-> <<got[i].r, got[i].li>>]

\* the handlers of route r in registration order if the pattern of the route
\* matches the path of the file, none otherwise
MatchingHandlers(r) ==
    IF LayerMatchWith(pRouteTab[r].regex, pFile.path).ok
    THEN [li \in 1..Len(pRouteTab[r].fns) |-> <<r, li>>]
    ELSE <<>>

\* the matching handlers of the routes from the i-th on of a list of routes
RECURSIVE MatchingOfRoutes(_, _)
MatchingOfRoutes(routes, i) ==
    IF i > Len(routes) THEN <<>>
    ELSE MatchingHandlers(routes[i]) \o MatchingOfRoutes(routes, i + 1)

\* the matching handlers of the phases from the i-th on, in registration order
RECURSIVE MatchingOfPhases(_)
MatchingOfPhases(i) ==
    IF i > Len(pMethods) THEN <<>>
    ELSE MatchingOfRoutes(RoutesOf(pMethods[i]), 1) \o MatchingOfPhases(i + 1)

Events(c, ev) == SelectSeq(mCall[c].log, LAMBDA e : e.ev = ev)

\* ev was observed at layer li strictly between positions i and j of the log of c
SeenBetween(c, evs, li, i, j) ==
    \E k \in (i + 1)..(j - 1) : mCall[c].log[k].ev \in evs /\ mCall[c].log[k].li = li

\* the values of `u` that the matching layers captured in call c, in the order
\* the layers were encountered
Captured(c) ==
    LET got == SelectSeq(Events(c, "match"),
                         LAMBDA e : HasOwn(e.file.params, <<"u">>) /\ e.file.params[<<"u">>] # UNDEF)
    IN [i \in 1..Len(got) |-> got[i].file.params[<<"u">>]]

\* the values the k-th param callback was invoked with in call c, in order
ParamCalls(c, k) ==
    LET got == SelectSeq(Events(c, "param"), LAMBDA e : e.k = k)
    IN [i \in 1..Len(got) |-> got[i].val]

\* a param callback of a kind that signals an error
Failing(fn) == fn \in {"err", "throw"}

FailingCallbacks == {j \in 1..Len(mParams[<<"u">>]) : Failing(mParams[<<"u">>][j])}

MatchedPrefix(li, path) ==
    IF fast_slash(mStack[li]) THEN <<>>
    ELSE Slice(path, 0, Exec(mStack[li].regexp, path).len)

\* path is rest with a leading slash ensured
Slashed(path, rest) == path = rest \/ (path = <<"/">> \o rest /\ (rest = <<>> \/ rest[1] # "/"))

\* C5: a mounted middleware sees file.path with the prefix its mount matched
\* removed and beginning with '/', and every layer tried in the call, and the
\* final callback, see the full path the file was dispatched with.
C5_PrefixStrippedAndRestored ==
    \A c \in DOMAIN mCall : \A j \in 1..Len(mCall[c].log) :
        LET e == mCall[c].log[j]
        IN /\ e.ev = "mw" =>
                /\ e.file.path # <<>> /\ e.file.path[1] = "/"
                /\ Slashed(e.file.path,
                           Substr(mCall[c].input, Len(MatchedPrefix(e.li, mCall[c].input))))
           /\ e.ev \in {"try", "done"} => e.file.path = mCall[c].input

\* a finished call in which a middleware mounted at /f/:u/ saw the stripped
\* path and called next, and a second layer was tried after it
C5_Witness ==
    \E c \in DOMAIN mCall :
        /\ mCall[c].pc = "done"
        /\ Len(mStack) = 2
        /\ mStack[1].pattern = <<"/", "f", "/", ":", "u", "/">>
        /\ mStack[1].handle \in {"next", "async"}
        /\ \E j \in 1..Len(mCall[c].log) :
             /\ mCall[c].log[j].ev = "mw" /\ mCall[c].log[j].li = 1
             /\ mCall[c].log[j].file.path # mCall[c].input
             /\ \E k \in (j + 1)..Len(mCall[c].log) :
                  mCall[c].log[k].ev = "try" /\ mCall[c].log[k].li = 2

\* what Layer.match stores for layer li on the path alone
OwnMatch(li, path) == match(mStack[li], LayerFields(mStack[li].pattern), path).fields

\* C6: whatever the interleaving of the calls in flight, each middleware
\* invocation of a call observes the originalPath of that call's file, the
\* params its layer captures from that file's path, and that path with the
\* prefix matched in it removed.
C6_CallsAreIsolated ==
    \A c \in DOMAIN mCall : \A j \in 1..Len(mCall[c].log) :
        LET e == mCall[c].log[j]
        IN e.ev = "mw" =>
            /\ e.file.originalPath = mCall[c].input
            /\ e.file.params = OwnMatch(e.li, mCall[c].input).params
            /\ Slashed(e.file.path,
                       Substr(mCall[c].input, Len(OwnMatch(e.li, mCall[c].input).path)))

\* two calls for different files overlap in the parameterized mount: the
\* first still waits in the mount's middleware when the second, started
\* later, has been through the same mount and has finished
C6_Witness ==
    /\ Len(mStack) >= 1
    /\ mStack[1].pattern = <<"/", "f", "/", ":", "u", "/">>
    /\ mStack[1].handle = "async"
    /\ HasOwn(mParams, <<"u">>) /\ mParams[<<"u">>][1] = "async"
    /\ mCall[1].pc = "mwTimer" /\ mCall[1].idx = 1
    /\ mCall[2].pc = "done"
    /\ mCall[1].input # mCall[2].input
    /\ \E j \in 1..Len(mCall[2].log) : mCall[2].log[j].ev = "mw" /\ mCall[2].log[j].li = 1

InvokedAfter(c, j) == {n \in (j + 1)..Len(mCall[c].log) : mCall[c].log[n].ev = "mw"}

\* observation j of call c is the invocation of a param callback that signals an error
ParamFailedAt(c, j) ==
    /\ mCall[c].log[j].ev = "param"
    /\ Failing(mParams[mCall[c].log[j].name][mCall[c].log[j].k])

\* C15 as stated: once a param callback has signalled an error, the handler
\* of the layer being processed is not invoked, no param callback and no
\* regular middleware runs afterwards in that call, and the call ends with
\* that error.
C15_ParamErrorAborts_AsStated ==
    \A c \in DOMAIN mCall : \A j \in 1..Len(mCall[c].log) :
        ParamFailedAt(c, j) =>
            /\ \A n \in (j + 1)..Len(mCall[c].log) :
                  /\ mCall[c].log[n].ev # "param"
                  /\ mCall[c].log[n].ev = "mw" =>
                        /\ mCall[c].log[n].li # mCall[c].log[j].li
                        /\ Arity(mStack[mCall[c].log[n].li].handle) = 3
            /\ mCall[c].pc = "done" => mCall[c].out = ParamErr(mCall[c].log[j].k)

\* C15: once a param callback has signalled an error, the handler of the
\* layer being processed is not invoked and no callback of that name runs
\* again in that call; the error (or the error that was already pending when
\* the layer was reached) is passed to next, so that the next middleware to be
\* invoked, if any, is an error handler that is given it, and a call in which
\* no error handler is invoked afterwards ends with it.
C15_ParamErrorGoesToNext ==
    \A c \in DOMAIN mCall : \A j \in 1..Len(mCall[c].log) :
        ParamFailedAt(c, j) =>
            LET e    == mCall[c].log[j]
                err  == OrErr(e.pending, ParamErr(e.k))
                rest == InvokedAfter(c, j)
            IN /\ \A n \in (j + 1)..Len(mCall[c].log) :
                     /\ ~(mCall[c].log[n].ev = "mw" /\ mCall[c].log[n].li = e.li)
                     /\ ~(mCall[c].log[n].ev = "param" /\ mCall[c].log[n].name = e.name)
               /\ \A n \in rest :
                     (\A n2 \in rest : n <= n2) =>
                         /\ Arity(mStack[mCall[c].log[n].li].handle) = 3
                         /\ mCall[c].log[n].pending = err
               /\ (rest = {} /\ mCall[c].pc = "done") => mCall[c].out = err

\* a finished call in which the param callback of the first layer signalled
\* an error, the middleware of that layer was not invoked, and the error
\* handler mounted after it was given the error and cleared it
C15_Witness ==
    \E c \in DOMAIN mCall :
        /\ mCall[c].pc = "done" /\ mCall[c].out = NoErr
        /\ Len(mStack) = 2 /\ mStack[1].handle = "next" /\ mStack[2].handle = "errh"
        /\ \E j \in 1..Len(mCall[c].log) :
             /\ ParamFailedAt(c, j) /\ mCall[c].log[j].li = 1
             /\ \E n \in InvokedAfter(c, j) :
                  mCall[c].log[n].li = 2 /\ mCall[c].log[n].pending = ParamErr(mCall[c].log[j].k)
        /\ \A n \in 1..Len(mCall[c].log) :
             ~(mCall[c].log[n].ev = "mw" /\ mCall[c].log[n].li = 1)

\* observation j of call c is the trial of a layer whose match throws the
\* error of decodeParam
DecodeFailedAt(c, j) ==
    LET e == mCall[c].log[j]
    IN /\ e.ev = "try"
       /\ match(mStack[e.li], LayerFields(mStack[e.li].pattern), e.file.path).result = "throw"

\* no segment of the path of call c holds a percent sign
WellEncoded(c) == \A i \in 1..Len(mCall[c].file.path) : mCall[c].file.path[i] # "%"

\* C17 as stated: when a captured segment is not valid percent-encoding, the
\* handler of the layer being matched is not invoked and the call ends with
\* the decode error, and a call for a well encoded path never sees that error.
C17_DecodeErrorEndsDispatch_AsStated ==
    \A c \in DOMAIN mCall :
        /\ \A j \in 1..Len(mCall[c].log) :
              DecodeFailedAt(c, j) =>
                  /\ \A n \in (j + 1)..Len(mCall[c].log) :
                        ~(mCall[c].log[n].ev = "mw" /\ mCall[c].log[n].li = mCall[c].log[j].li)
                  /\ mCall[c].pc = "done" => mCall[c].out = DecodeErr
        /\ (mCall[c].pc # "idle" /\ WellEncoded(c)) =>
              /\ mCall[c].arg # DecodeErr /\ mCall[c].layerError # DecodeErr
              /\ mCall[c].pc = "done" => mCall[c].out # DecodeErr

\* C17: when a captured segment is not valid percent-encoding, the handler
\* of the layer being matched is not invoked; the decode error (or the error
\* that was already pending when the layer was reached) is passed to next,
\* so that the next middleware to be invoked, if any, is an error handler that
\* is given it, and a call in which no error handler is invoked afterwards
\* ends with it; a call for a well encoded path never sees the decode error.
C17_DecodeErrorGoesToNext ==
    \A c \in DOMAIN mCall :
        /\ \A j \in 1..Len(mCall[c].log) :
              DecodeFailedAt(c, j) =>
                  LET e    == mCall[c].log[j]
                      err  == OrErr(e.pending, DecodeErr)
                      rest == InvokedAfter(c, j)
                  IN /\ \A n \in (j + 1)..Len(mCall[c].log) :
                           ~(mCall[c].log[n].ev \in {"mw", "match", "param"}
                             /\ mCall[c].log[n].li = e.li)
                     /\ \A n \in rest :
                           (\A n2 \in rest : n <= n2) =>
                               /\ Arity(mStack[mCall[c].log[n].li].handle) = 3
                               /\ mCall[c].log[n].pending = err
                     /\ (rest = {} /\ mCall[c].pc = "done") => mCall[c].out = err
        /\ (mCall[c].pc # "idle" /\ WellEncoded(c)) =>
              /\ mCall[c].arg # DecodeErr /\ mCall[c].layerError # DecodeErr
              /\ mCall[c].pc = "done" => mCall[c].out # DecodeErr

\* two finished calls through one router whose only layer captures a
\* segment: the call whose segment is not valid percent-encoding ended with
\* the decode error and never invoked the middleware, and the other call
\* invoked it and ended without an error
C17_Witness ==
    /\ Len(mStack) = 1 /\ mStack[1].handle = "next"
    /\ \E c, d \in DOMAIN mCall :
         /\ mCall[c].pc = "done" /\ mCall[c].out = DecodeErr
         /\ \E j \in 1..Len(mCall[c].log) : DecodeFailedAt(c, j)
         /\ Events(c, "mw") = <<>>
         /\ mCall[d].pc = "done" /\ mCall[d].out = NoErr /\ WellEncoded(d)
         /\ Len(Events(d, "mw")) = 1

\* the values of `name` that the matching layers captured in call c, in the
\* order the layers were encountered
CapturedOf(c, name) ==
    LET got == SelectSeq(Events(c, "match"),
                         LAMBDA e : HasOwn(e.file.params, name) /\ e.file.params[name] # UNDEF)
    IN [i \in 1..Len(got) |-> got[i].file.params[name]]

\* the values the k-th param callback of `name` was invoked with in call c, in order
ParamCallsOf(c, name, k) ==
    LET got == SelectSeq(Events(c, "param"), LAMBDA e : e.name = name /\ e.k = k)
    IN [i \in 1..Len(got) |-> got[i].val]

\* seq without the elements that repeat the element before them
RECURSIVE Runs(_)
Runs(seq) ==
    IF Len(seq) <= 1 THEN seq
    ELSE LET front == Runs(SubSeq(seq, 1, Len(seq) - 1))
         IN IF seq[Len(seq)] = seq[Len(seq) - 1] THEN front
            ELSE Append(front, seq[Len(seq)])

\* the elements of seq
Range(seq) == {seq[i] : i \in 1..Len(seq)}

\* no callback registered for `name` signals an error
NoneFailing(name) == \A k \in 1..Len(mParams[name]) : ~Failing(mParams[name][k])

\* C16 as stated, for callbacks that signal no error: in a finished call each
\* param callback of a name was invoked once for every distinct value that
\* the layers captured for that name.
C16_OncePerDistinctValue_AsStated ==
    \A c \in DOMAIN mCall : \A name \in DOMAIN mParams :
        (mCall[c].pc = "done" /\ NoneFailing(name)) =>
            \A k \in 1..Len(mParams[name]) :
                Len(ParamCallsOf(c, name, k)) = Cardinality(Range(CapturedOf(c, name)))

\* C16: in a finished call each param callback of a name, when none of them
\* signals an error, was invoked once for every run of consecutive equal
\* values among the values the layers captured for that name, in encounter
\* order: it is not invoked again for the value it was last invoked for, and
\* it is invoked again for a value that recurs after a different one.
C16_OncePerRunOfValues ==
    \A c \in DOMAIN mCall : \A name \in DOMAIN mParams :
        (mCall[c].pc = "done" /\ NoneFailing(name)) =>
            \A k \in 1..Len(mParams[name]) :
                ParamCallsOf(c, name, k) = Runs(CapturedOf(c, name))

\* a finished call in which three layers captured a, b and a again for `u`,
\* and the callback of `u` ran three times
C16_Witness ==
    \E c \in DOMAIN mCall :
        /\ mCall[c].pc = "done"
        /\ HasOwn(mParams, <<"u">>) /\ NoneFailing(<<"u">>)
        /\ CapturedOf(c, <<"u">>) = << <<"a">>, <<"b">>, <<"a">> >>
        /\ ParamCallsOf(c, <<"u">>, 1) = << <<"a">>, <<"b">>, <<"a">> >>

(***************************************************************************)
(* Properties of the callback based Route.                                 *)
(***************************************************************************)

\* the layers whose middleware the dispatch has called, in order
RouteInvoked == [i \in 1..Len(rCall.log) |-> rCall.log[i].li]

\* layer li is tagged 'all' or with file.options.method of the dispatched file
TagAdmits(li) == rStack[li].name = "all" \/ rStack[li].name = rCall.method

\* C11: Route.dispatch invokes only the layers tagged 'all' or tagged with the
\* active phase of the file; a layer registered on the same route under
\* another phase is never invoked by that dispatch.
C11_OnlyTaggedLayers_AsStated ==
    \A i \in 1..Len(RouteInvoked) : TagAdmits(RouteInvoked[i])

\* C11, for the dispatch that walks the stack with next: it invokes only the
\* layers tagged 'all' or tagged with the active phase of the file.
C11_NextDispatchFilters ==
    ~rReduce => \A i \in 1..Len(RouteInvoked) : TagAdmits(RouteInvoked[i])

\* the dispatch with next has finished on a route that holds a layer of the
\* active phase, which was invoked, and a layer of another phase
C11_Witness ==
    /\ ~rReduce /\ rCall.pc = "done" /\ rCall.method = "before"
    /\ \E i \in 1..Len(RouteInvoked) : rStack[RouteInvoked[i]].name = "before"
    /\ \E li \in 1..Len(rStack) : rStack[li].name = "after"

\* the kind of the middleware of the layer observation k is about
InvokedFn(k) == rStack[rCall.log[k].li].handle

\* the argument of the call of next that follows observation k: what the
\* middleware passed to next, or what it threw
Pending(k) ==
    LET e  == rCall.log[k]
        fn == InvokedFn(k)
    IN CASE rReduce /\ RouteArity(fn) = 3       -> NotAFunction(e.li)
         [] fn \in {"err", "throw", "errthrow"} -> RouteErr(e.li)
         [] fn = "errpass"                      -> e.err
         [] fn = "route"                        -> SkipRoute
         [] OTHER                               -> NoErr

IsError(err) == err # NoErr /\ err # SkipRoute

\* C14: once a middleware has signalled an error, by next(err) or by throwing,
\* the next middleware to be invoked is an error handler (arity 3) and is
\* given that error, so every regular middleware in between is skipped; once
\* an error handler has called next without an error the next middleware to
\* be invoked is a regular one again; and an error that is still pending
\* when the stack is exhausted is the error the final callback receives.
C14_ErrorsGoToErrorHandlers ==
    /\ \A k \in 1..(Len(rCall.log) - 1) :
          /\ IsError(Pending(k)) =>
                /\ RouteArity(InvokedFn(k + 1)) = 3
                /\ rCall.log[k + 1].err = Pending(k)
          /\ Pending(k) = NoErr =>
                /\ rCall.log[k + 1].err = NoErr
                /\ ~rReduce => RouteArity(InvokedFn(k + 1)) = 2
    /\ (rCall.pc = "done" /\ rCall.log # <<>> /\ IsError(Pending(Len(rCall.log))))
          => rCall.out = Pending(Len(rCall.log))

\* the first middleware signalled an error, the regular middleware after it
\* was skipped, the error handler after that was invoked and cleared the
\* error, and the final callback got no error
C14_Witness ==
    /\ ~rReduce /\ rCall.pc = "done" /\ rCall.out = NoErr
    /\ Len(rStack) = 3 /\ \A li \in 1..3 : rStack[li].name = "all"
    /\ rStack[1].handle = "throw" /\ rStack[2].handle = "next" /\ rStack[3].handle = "errh"
    /\ RouteInvoked = <<1, 3>>

(***************************************************************************)
(* Properties of the filter based Router.                                  *)
(***************************************************************************)

\* the kind of the middleware an observation of the dispatch is about
AppliedFn(e) == dRoutes[e.r].handle[e.j]

\* the plain middleware (file, next) of the routes after route r whose filter
\* matches the dispatched page, as <<route, index>>
PlainAfter(r) ==
    { x \in (DOMAIN dRoutes) \X (1..MaxDispatchFns) :
        /\ x[1] > r
        /\ x[2] <= Len(dRoutes[x[1]].handle)
        /\ matchStr(x[1], dCall.path)
        /\ RouteArity(dRoutes[x[1]].handle[x[2]]) = 2 }

\* the first of a set of <<route, index>> in the order of dispatch
FirstOf(S) ==
    CHOOSE x \in S : \A y \in S : x[1] < y[1] \/ (x[1] = y[1] /\ x[2] <= y[2])

\* C12: when a middleware of a route calls next('route'), the remaining
\* middleware of that route are not invoked, the dispatch goes on with the
\* first middleware of the next matching route, and the sentinel is not an
\* error for the final callback: it never receives 'route', and it receives
\* no error at all when nothing ran after the sentinel.
C12_SentinelSkipsRoute ==
    \A k \in 1..Len(dCall.log) :
        AppliedFn(dCall.log[k]) = "route" =>
            /\ \A n \in (k + 1)..Len(dCall.log) : dCall.log[n].r > dCall.log[k].r
            /\ IF PlainAfter(dCall.log[k].r) # {}
               THEN /\ k < Len(dCall.log)
                    /\ <<dCall.log[k + 1].r, dCall.log[k + 1].j>>
                           = FirstOf(PlainAfter(dCall.log[k].r))
               ELSE /\ k = Len(dCall.log)
                    /\ dCall.pc = "done"
                    /\ dCall.out = NoErr
            /\ dCall.out # SkipRoute

\* the first middleware of the first route called next('route'), the route
\* has another middleware after it, a second route matches, and the dispatch
\* has ended: the middleware of the second route was applied and the final
\* callback got no error
C12_Witness ==
    /\ dCall.pc = "done" /\ dCall.out = NoErr
    /\ Len(dRoutes) = 2 /\ Len(dRoutes[1].handle) = 2
    /\ Len(dCall.log) = 2
    /\ AppliedFn(dCall.log[1]) = "route"
    /\ dCall.log[1].r = 1 /\ dCall.log[1].j = 1
    /\ dCall.log[2].r = 2

\* observation k is the last one about its route: the middleware it is about
\* was the last of that route to be applied
LastOfRoute(k) ==
    \A n \in (k + 1)..Len(dCall.log) : dCall.log[n].r # dCall.log[k].r

\* C13: an error that a middleware of a route passes to next or throws, and
\* that no error handler of that route consumes, is delivered to the final
\* callback, whatever routes are registered after that route.
C13_ErrorReachesFinalCallback_AsStated ==
    dCall.pc = "done" =>
        \A k \in 1..Len(dCall.log) :
            (LastOfRoute(k) /\ AppliedFn(dCall.log[k]) \in {"err", "throw"})
                => dCall.out = DispatchErr(dCall.log[k].r, dCall.log[k].j)

\* C13, where it holds: the error is delivered when no route after the
\* failing one matches the page.
C13_ErrorReachesFinalCallbackOfLastRoute ==
    dCall.pc = "done" =>
        \A k \in 1..Len(dCall.log) :
            (/\ LastOfRoute(k)
             /\ AppliedFn(dCall.log[k]) \in {"err", "throw"}
             /\ RouterMatch(dCall.path, dCall.log[k].r + 1) = 0)
                => dCall.out = DispatchErr(dCall.log[k].r, dCall.log[k].j)

(***************************************************************************)
(* Properties of Router.route.                                             *)
(***************************************************************************)

\* router.route(pattern).before(f).after(g) was called on a router that has
\* the handlers before and after and no routes of its own
BoundExample(f, g) ==
    /\ bBound.made
    /\ InSeq("before", bRouter.methods) /\ InSeq("after", bRouter.methods)
    /\ bBound.keys = {"before", "after"}
    /\ RouteCount(bRouter) = 0
    /\ bBound.router.methods = <<"before", "after">>
    /\ bBound.router.routes["before"] = <<[pattern |-> bBound.pattern, fn |-> f]>>
    /\ bBound.router.routes["after"] = <<[pattern |-> bBound.pattern, fn |-> g]>>

\* C18 as stated: after router.route(pattern).before(f).after(g), handle(file)
\* on the router route() was called on, with a file that matches the
\* pattern, has run f and then g on the file.
C18_RouterRunsBoundHandlers_AsStated ==
    \A f, g \in BoundFns :
        (/\ BoundExample(f, g)
         /\ bCalled = "router"
         /\ LayerMatch(bBound.pattern, bFile.path).ok)
            => bFile.content = <<f, g>>

\* C18, for the router that route() returned: after
\* router.route(pattern).before(f).after(g), handle(file) on the returned
\* router, with a file that matches the pattern, has run f and then g on the
\* file, and handle(file) on the router route() was called on has run neither.
C18_ReturnedRouterRunsBoundHandlers ==
    \A f, g \in BoundFns :
        (BoundExample(f, g) /\ LayerMatch(bBound.pattern, bFile.path).ok) =>
            /\ bCalled = "bound" => bFile.content = <<f, g>>
            /\ bCalled = "router" => bFile.content = <<>>

\* the example: handle(file) on the returned router appended foo and then bar
C18_Witness ==
    /\ BoundExample("foo", "bar")
    /\ bCalled = "bound"
    /\ bFile.content = <<"foo", "bar">>

(***************************************************************************)
(* Properties of Layer.match on the pattern of the blog example.           *)
(***************************************************************************)

\* the segments of a path: the runs of characters between its slashes
RECURSIVE SegmentsFrom(_, _, _, _)
SegmentsFrom(path, i, seg, segs) ==
    IF i > Len(path) THEN IF seg = <<>> THEN segs ELSE Append(segs, seg)
    ELSE IF path[i] = "/"
    THEN SegmentsFrom(path, i + 1, <<>>, IF i = 1 THEN segs ELSE Append(segs, seg))
    ELSE SegmentsFrom(path, i + 1, Append(seg, path[i]), segs)
Segments(path) == SegmentsFrom(path, 1, <<>>, <<>>)

Blog == <<"b", "l", "o", "g">>
BlogKeys == {<<"y", "e", "a", "r">>, <<"m", "o", "n", "t", "h">>, <<"d", "a", "y">>, <<"s", "l", "u", "g">>}

\* the path has exactly five segments and its params are the last four, in order
FiveSegmentsBound ==
    LET segs == Segments(gPath)
    IN Len(segs) = 5 =>
          /\ gMatch.ok
          /\ DOMAIN gMatch.params = BlogKeys
          /\ gMatch.params[<<"y", "e", "a", "r">>] = segs[2]
          /\ gMatch.params[<<"m", "o", "n", "t", "h">>] = segs[3]
          /\ gMatch.params[<<"d", "a", "y">>] = segs[4]
          /\ gMatch.params[<<"s", "l", "u", "g">>] = segs[5]

\* C20 as stated: a path of exactly five segments whose first is the literal
\* matches and yields exactly the four params, each bound to its segment in
\* order; a path with fewer segments, or with a different first segment,
\* does not match.
C20_BlogPatternMatches_AsStated ==
    gMatch.applied =>
        LET segs == Segments(gPath)
        IN /\ (segs # <<>> /\ segs[1] = Blog) => FiveSegmentsBound
           /\ Len(segs) < 5 => ~gMatch.ok
           /\ (segs # <<>> /\ segs[1] # Blog) => ~gMatch.ok

\* C20: the literal is compared without regard to letter case.  A path of
\* exactly five segments whose first is the literal in any letter case
\* matches, with or without a trailing slash, and yields exactly the four
\* params, each bound to its segment in order; a path with fewer segments, or
\* whose first segment differs from the literal in more than letter case,
\* does not match.
C20_BlogPatternMatchesAnyCase ==
    gMatch.applied =>
        LET segs == Segments(gPath)
        IN /\ (segs # <<>> /\ FoldAll(segs[1]) = Blog) => FiveSegmentsBound
           /\ Len(segs) < 5 => ~gMatch.ok
           /\ (segs # <<>> /\ FoldAll(segs[1]) # Blog) => ~gMatch.ok

\* the pattern was matched against /blog/04/a.0/04/a.0 and gave the four params
C20_Witness ==
    /\ gMatch.applied /\ gMatch.ok
    /\ Segments(gPath) = <<Blog, <<"0", "4">>, <<"a", ".", "0">>, <<"0", "4">>, <<"a", ".", "0">>>>
    /\ gMatch.params[<<"y", "e", "a", "r">>] = <<"0", "4">>
    /\ gMatch.params[<<"s", "l", "u", "g">>] = <<"a", ".", "0">>


(***************************************************************************)
(* Properties of a promise based Layer over its lifetime.                  *)
(***************************************************************************)

\* the names of the keys of the layer's pattern, in order
KeyNames == LET keys == LayerRegex(lLayer.pattern).keys
            IN [i \in 1..Len(keys) |-> keys[i].name]

\* the captures of a match call that took part in the match under the name
DefinedUnder(call, name) ==
    {call.caps[i] : i \in {j \in 1..Len(call.caps) : KeyNames[j] = name /\ call.caps[j] # UNDEF}}

\* C21: when several capture groups map to the same param name, an undefined
\* capture never replaces a value already stored under that name: after every
\* successful match the params hold a defined capture under each name that
\* some group captured.
C21_UndefinedNeverOverwrites_AsStated ==
    \A c \in 1..Len(lLog) :
        lLog[c].ok =>
            \A name \in {KeyNames[i] : i \in 1..Len(KeyNames)} :
                DefinedUnder(lLog[c], name) # {} =>
                    lLog[c].params[name] \in DefinedUnder(lLog[c], name)

\* a match in which the first group of a name captured and the second did not
C21_Witness ==
    \E c \in 1..Len(lLog) :
        /\ lLog[c].ok
        /\ Len(lLog[c].caps) = 2
        /\ KeyNames[1] = KeyNames[2]
        /\ lLog[c].caps[1] # UNDEF
        /\ lLog[c].caps[2] = UNDEF


\* C22: a Layer compiles its pattern at most once: the pattern is compiled no
\* more than once over the layer's lifetime, and no match call after the first
\* compiles it.
C22_CompilesAtMostOnce_AsStated ==
    /\ lLayer.compiles <= 1
    /\ \A c \in 2..Len(lLog) : lLog[c].compiled = 0

\* the layer was matched twice against non-empty paths
C22_Witness ==
    /\ Len(lLog) = 2
    /\ lLog[1].path # <<>>
    /\ lLog[2].path # <<>>
    /\ lLog[2].compiled > 0


\* the pattern '/:u(*)': its custom pattern makes the source ^\/(*)..., which
\* is no regular expression
Malformed == <<"/", ":", "u", "(", "*", ")">>

\* C25, as stated: a malformed pattern is rejected when the handler is
\* registered, and no later match of a dispatch raises a compilation error.
C25_RejectedAtRegistration_AsStated ==
    /\ lLayer.made => lLayer.pattern # Malformed
    /\ \A c \in 1..Len(lLog) : ~lLog[c].threw

\* C25, amended: the promise based Layer accepts a malformed pattern when it
\* is registered and compiles nothing then; the compilation error is raised by
\* every later match of a non-empty path, and by no other match.
C25_RaisedByEveryMatch ==
    /\ (lLayer.made /\ lLog = <<>>) => lLayer.compiles = 0
    /\ \A c \in 1..Len(lLog) :
          lLog[c].threw <=> (lLayer.pattern = Malformed /\ lLog[c].path # <<>>)

\* a layer registered with the malformed pattern was matched twice
C25_Witness ==
    /\ lLayer.made
    /\ lLayer.pattern = Malformed
    /\ Len(lLog) = 2
    /\ lLog[1].threw /\ lLog[2].threw

(***************************************************************************)
(* Properties of pathToRegexp.                                             *)
(***************************************************************************)

\* the elements of the compiled pattern: those of an array, or the pattern
ElementsOf(val) == IF val.kind = "array" THEN val.elements ELSE <<val>>

\* C23: for every compiled pattern (string, regex or array) the keys list has
\* exactly one entry per capturing group of the resulting regex, in the same
\* order: the keys are as many as the groups, and so are the keys and groups of
\* the first e elements of an array, for every e.
C23_OneKeyPerGroup_AsStated ==
    cOut.done =>
        /\ Len(cOut.keys) = CapturingGroups(cOut.source)
        /\ \A e \in 1..Len(ElementsOf(cPattern)) :
              LET made == JoinParts(SubSeq(ElementsOf(cPattern), 1, e), cOut.options)
              IN Len(made.keys) = CapturingGroups(made.source)

\* a regular expression with escaped parentheses was compiled
C23_Witness ==
    /\ cOut.done
    /\ cPattern.kind = "regexp"
    /\ CountedGroups(cPattern.source) # CapturingGroups(cPattern.source)


\* C24, as stated: a pattern that is the empty string or an empty array
\* compiles to a matcher that accepts every path.
C24_EmptyAcceptsEveryPath_AsStated ==
    (cOut.tested /\ cPattern \in {StringPattern(<<>>), ArrayPattern(<<>>)}) => cOut.accepted

\* C24, amended: an empty array compiles to a matcher that accepts every path;
\* the empty string compiled with end accepts only the empty path and, unless
\* strict, the path "/", and compiled without end it accepts exactly the paths
\* that are empty or begin with "/".
C24_EmptyArrayAcceptsEveryPath ==
    cOut.tested =>
        /\ cPattern = ArrayPattern(<<>>) => cOut.accepted
        /\ cPattern = StringPattern(<<>>) =>
              (cOut.accepted <=>
                  IF cOut.options.end
                  THEN \/ cOut.path = <<>>
                       \/ ~cOut.options.strict /\ cOut.path = <<"/">>
                  ELSE cOut.path = <<>> \/ cOut.path[1] = "/")

\* the empty string compiled without end was run on a path of two segments
C24_Witness ==
    /\ cOut.tested
    /\ cPattern = StringPattern(<<>>)
    /\ ~cOut.options.end
    /\ cOut.path = <<"/", "a", "/", "b">>
    /\ cOut.accepted


(***************************************************************************)
(* Properties of the Router that walks its stack with reduce.              *)
(***************************************************************************)

\* C26: when the final callback of router.handle is invoked, file.path and
\* file.options.parentPath equal the values they had on entry to handle.
C26_PathRestoredAtCallback_AsStated ==
    hCall.pc = "done" =>
        /\ hCall.cbPath = hCall.entryPath
        /\ hCall.cbParent = hCall.entryParent

\* the last layer of the stack is a mount on a prefix of the path, and the
\* callback was invoked after it
C26_Witness ==
    /\ hCall.pc = "done"
    /\ hStack # <<>>
    /\ ~hStack[Len(hStack)].route
    /\ hCall.removed = <<"/", "a">>
    /\ hCall.entryPath = <<"/", "a", "/", "b">>

\* C27: every router.handle call eventually invokes its final callback, when
\* every invoked middleware eventually calls next, also for a file that
\* carries no phase name.
C27_CallbackEventually_AsStated ==
    (hCall.pc # "idle") ~> (hCall.pc = "done")

\* a call for a file without a phase name reached a route that is not
\* registered under "all"
C27_Witness ==
    /\ hCall.pc \in {"thrown", "lost"}
    /\ hCall.method = NoMethod

(***************************************************************************)
(* Properties of the final callback of the next based router               *)
(***************************************************************************)

\* how many events of a kind call c has seen
SeenCount(c, ev) == Cardinality({ n \in DOMAIN mCall[c].log : mCall[c].log[n].ev = ev })

\* C28: when every middleware and every param callback throws before it
\* calls next or calls next exactly once, router.handle invokes its final
\* callback exactly once: not while a middleware or a param callback has yet
\* to call next, once when none has, and as the last thing the call does.
C28_FinalCallbackOnce ==
    \A c \in DOMAIN mCall :
        LET call == mCall[c]
        IN /\ call.pc \in Suspended
           /\ SeenCount(c, "next") + SeenCount(c, "throw") <= SeenCount(c, "mw")
           /\ call.pc = "done" =>
                 /\ SeenCount(c, "done") = 1
                 /\ call.log[Len(call.log)].ev = "done"
                 /\ SeenCount(c, "next") + SeenCount(c, "throw") = SeenCount(c, "mw")
           /\ call.pc # "done" => SeenCount(c, "done") = 0

\* the final callback was invoked for a file that went through a param
\* callback, through a middleware that threw and through a middleware that
\* called next from a timer
C28_Witness ==
    \E c \in DOMAIN mCall :
        /\ mCall[c].pc = "done"
        /\ SeenCount(c, "param") > 0
        /\ SeenCount(c, "throw") > 0
        /\ \E n \in DOMAIN mCall[c].log :
              /\ mCall[c].log[n].ev = "mw"
              /\ mStack[mCall[c].log[n].li].handle = "async"

(***************************************************************************)
(* Properties of the param callbacks of a matched layer                    *)
(***************************************************************************)

\* the events of call c at which the middleware of a layer was invoked
HandlerEvents(c) == { n \in DOMAIN mCall[c].log : mCall[c].log[n].ev = "mw" }

\* the event at which the layer of handler event n was found to match
MatchEvent(c, n) ==
    CHOOSE m \in 1..n :
        /\ mCall[c].log[m].ev = "match"
        /\ mCall[c].log[m].li = mCall[c].log[n].li
        /\ \A m2 \in (m + 1)..n : mCall[c].log[m2].ev # "match"

\* the values the layer of handler event n captured
CapturedAt(c, n) == mCall[c].log[MatchEvent(c, n)].file.params

\* the keys of the layer of handler event n that captured a value for a name
\* with param callbacks
DueKeys(c, n) ==
    LET keys == LayerKeys(mStack[mCall[c].log[n].li])
    IN { j \in DOMAIN keys :
           /\ HasOwn(mParams, keys[j].name)
           /\ HasOwn(CapturedAt(c, n), keys[j].name)
           /\ CapturedAt(c, n)[keys[j].name] # UNDEF }

\* the param callback events between the match of the layer and its handler
ParamEventsFor(c, n) ==
    { e \in MatchEvent(c, n)..n : mCall[c].log[e].ev = "param" }

\* the place of a name among the keys of a layer
KeyIndex(li, name) ==
    CHOOSE j \in DOMAIN LayerKeys(mStack[li]) : LayerKeys(mStack[li])[j].name = name

\* C29: for a matched layer, all param callbacks registered for its captured
\* names run to completion, in registration order for each name and in key
\* order across names, before the handler of the layer is invoked, and each
\* receives (file, next, value, name).
C29_ParamCallbacksBeforeHandler ==
    \A c \in DOMAIN mCall :
        LET log == mCall[c].log
        IN /\ \A n \in HandlerEvents(c) :
                LET li   == log[n].li
                    keys == LayerKeys(mStack[li])
                    vals == CapturedAt(c, n)
                IN \* every callback of every captured name has been called
                   \* with the captured value
                   /\ \A j \in DueKeys(c, n) :
                         \A k \in 1..Len(mParams[keys[j].name]) :
                            \E e \in 1..n :
                               /\ log[e].ev = "param"
                               /\ log[e].k = k
                               /\ log[e].name = keys[j].name
                               /\ log[e].val = vals[keys[j].name]
                   \* nothing but param callbacks runs between the match of
                   \* the layer and its handler
                   /\ \A e \in (MatchEvent(c, n) + 1)..(n - 1) : log[e].ev = "param"
                   \* they are called for the keys of the layer, in key
                   \* order, with the file, the captured value and the name
                   /\ \A e \in ParamEventsFor(c, n) :
                         /\ \E j \in DueKeys(c, n) : keys[j].name = log[e].name
                         /\ log[e].val = vals[log[e].name]
                         /\ log[e].file = log[MatchEvent(c, n)].file
                         /\ log[e].li = li
                   /\ \A e1, e2 \in ParamEventsFor(c, n) :
                         e1 < e2 => KeyIndex(li, log[e1].name) <= KeyIndex(li, log[e2].name)
           \* the callbacks of a name are called in registration order, each
           \* right after the one before it
           /\ \A e \in DOMAIN log :
                 (log[e].ev = "param" /\ log[e].k > 1) =>
                    /\ log[e - 1].ev = "param"
                    /\ log[e - 1].k = log[e].k - 1
                    /\ log[e - 1].name = log[e].name
                    /\ log[e - 1].val = log[e].val
           \* while a param callback has yet to call next, nothing has run
           \* after it
           /\ mCall[c].pc = "paramTimer" => log[Len(log)].ev = "param"

\* the handler of a layer that captured two names was invoked after two
\* param callbacks of each name, one of which called next from a timer
C29_Witness ==
    \E c \in DOMAIN mCall : \E n \in HandlerEvents(c) :
        /\ Cardinality(DueKeys(c, n)) = 2
        /\ Cardinality(ParamEventsFor(c, n)) = 4
        /\ \E name \in DOMAIN mParams : \E k \in DOMAIN mParams[name] :
              mParams[name][k] = "async"

(***************************************************************************)
(* Properties of the order of handlers in parallel mode                    *)
(***************************************************************************)

\* the handler that took effect at place i of file.names: its route, its
\* layer, the phase the route is registered under, and its kind
EffectRoute(i) == pFile.names[i][1]
EffectLayer(i) == pFile.names[i][2]
EffectPhase(i) == pRouteTab[EffectRoute(i)].method
EffectKind(i) == pRouteTab[EffectRoute(i)].fns[EffectLayer(i)]

SkippedRoute(c, n) ==
    LET e     == mCall[c].log[n]
        layer == mStack[e.li]
    IN /\ e.ev = "try"
       /\ IsRoute(layer)
       /\ e.pending = NoErr
       /\ Exec(layer.regexp, e.file.path).ok
       /\ "all" \notin layer.methods
       /\ mCall[c].method \notin layer.methods

\* C31: when a layer wraps a Route that does not handle the active phase, the
\* route is not dispatched, none of its middleware and no param callback runs
\* for it, and scanning continues with the next layer without an error.
C31_UnhandledRouteSkipped ==
    \A c \in DOMAIN mCall :
        LET log == mCall[c].log
        IN \A n \in DOMAIN log :
              SkippedRoute(c, n) =>
                  /\ \A k \in DOMAIN log :
                        log[k].li = log[n].li => log[k].ev \notin {"mw", "param", "match"}
                  /\ n < Len(log)
                  /\ log[n + 1].pending = NoErr
                  /\ log[n + 1].err = NoErr
                  /\ \/ log[n + 1].ev = "try" /\ log[n + 1].li = log[n].li + 1
                     \/ log[n + 1].ev = "done" /\ log[n].li = Len(mStack)

\* a route that has no handler for the phase of the file was passed over on
\* a path it matches, a param callback is registered for the name it
\* captures, and the middleware of the layer after it ran
C31_Witness ==
    \E c \in DOMAIN mCall : \E n \in DOMAIN mCall[c].log :
        /\ SkippedRoute(c, n)
        /\ mCall[c].method = "before"
        /\ HasOwn(mParams, <<"u">>)
        /\ \E k \in DOMAIN mCall[c].log :
              mCall[c].log[k].ev = "mw" /\ mCall[c].log[k].li = mCall[c].log[n].li + 1

(***************************************************************************)
(* Properties of route.status                                              *)
(***************************************************************************)

\* a Route.handle call on route r is running its layers
InProgress(r) == pTask[r].state \in {"ready", "pending"}

\* C32, as stated: after a route has been handled at least once, route.status
\* is 'finished' exactly when no handle call on that route is in progress,
\* whether the calls settled by resolution or by rejection.
C32_FinishedWhenSettled_AsStated ==
    \A r \in DOMAIN pTask :
        pTask[r].state # "none" =>
            (RouteStatus(r) = "finished" <=> ~InProgress(r))

\* the handle call of a route was rejected by its second handler
C32_Witness ==
    \E r \in DOMAIN pTask :
        /\ pTask[r].state = "rejected"
        /\ pTask[r].err = HandlerErr(r, 2)
        /\ RouteStatus(r) = "starting"

(***************************************************************************)
(* Properties of the methods of the Router that route() returns            *)
(***************************************************************************)

\* how many times a text occurs in a sequence
Occurrences(seq, x) == Cardinality({i \in DOMAIN seq : seq[i] = x})

\* C33, as stated: on a router returned by route(pattern), every handler
\* registered through a phase method runs for a matching file, no matter how
\* many times the same phase method is called on that router.
C33_EveryBoundHandlerRuns_AsStated ==
    (bCalled = "bound" /\ LayerMatch(bBound.pattern, bFile.path).ok) =>
        \A fn \in BoundFns :
            Occurrences(bFile.content, fn) = Occurrences(bBound.calls, fn)

\* a phase method was called twice on the returned router, and handle(file)
\* with a matching file ran the first handler only
C33_Witness ==
    /\ bCalled = "bound"
    /\ LayerMatch(bBound.pattern, bFile.path).ok
    /\ bBound.calls = <<"foo", "bar">>
    /\ bBound.router.methods = <<"before">>
    /\ bFile.content = <<"foo">>

(***************************************************************************)
(* Properties of a handler registered with an array of patterns            *)
(***************************************************************************)

\* the patterns of an array that match a path, by their places in the array
MatchingPlaces(patterns, path) ==
    {i \in DOMAIN patterns : LayerMatch(patterns[i], path).ok}

\* the calls with an array of patterns whose function was registered by no
\* other call
ArrayCalls ==
    {i \in DOMAIN bRouter.arrays :
        /\ \A j \in DOMAIN bRouter.arrays : j # i => bRouter.arrays[j].fn # bRouter.arrays[i].fn
        /\ \A m \in DOMAIN bRouter.routes :
              Occurrences([k \in DOMAIN bRouter.routes[m] |-> bRouter.routes[m][k].fn],
                          bRouter.arrays[i].fn)
                = IF m = bRouter.arrays[i].method THEN Len(bRouter.arrays[i].patterns) ELSE 0}

\* C34, as stated: a handler registered with an array of patterns is invoked
\* at most once per handle call for a given file, also when the path of the
\* file matches several of the patterns.
C34_ArrayHandlerAtMostOnce_AsStated ==
    bCalled = "router" =>
        \A i \in ArrayCalls : Occurrences(bFile.content, bRouter.arrays[i].fn) <= 1

\* C34, amended: a handler registered with an array of patterns is invoked
\* once for every pattern of the array that the path of the file matches.
C34_ArrayHandlerOncePerPattern ==
    bCalled = "router" =>
        \A i \in ArrayCalls :
            Occurrences(bFile.content, bRouter.arrays[i].fn)
              = Cardinality(MatchingPlaces(bRouter.arrays[i].patterns, bFile.path))

\* a handler was registered with two patterns that both match the path of
\* the file, and handle(file) has invoked it twice
C34_Witness ==
    /\ bCalled = "router"
    /\ bRouter.arrays = <<[method |-> "before", patterns |-> <<<<"/", "a">>, <<"/", ":", "u">>>>,
                           fn |-> "foo"]>>
    /\ bFile.path = <<"/", "a">>
    /\ bFile.content = <<"foo", "foo">>

(***************************************************************************)
(* Properties of Router.handler called with a name that is no string       *)
(***************************************************************************)

\* C35, as stated: a call of Router.handler(name) that throws because name is
\* no string leaves the registered phases unchanged, so that handle(name,
\* file) fails with the "does not exist" error after it as before it.
C35_ThrowingHandlerRegistersNothing_AsStated ==
    \A m \in PhaseNames \ Names :
        /\ ~RoutesHas(m)
        /\ (pTop.kind = "handle" /\ pTop.method = m) =>
              (pHandle[m].state = "rejected" /\ pHandle[m].err = DoesNotExist)

\* router.handler() has thrown, and handle(undefined, file) after it has
\* resolved
C35_Witness ==
    /\ RoutesHas(UndefinedName)
    /\ ~InSeq(UndefinedName, pMethods)
    /\ pTop = [kind |-> "handle", method |-> UndefinedName]
    /\ pHandle[UndefinedName].state = "resolved"

(***************************************************************************)
(* Properties of Layer.match of the Layers that store params and path      *)
(***************************************************************************)

\* C36, as stated: a Layer.match call on a path that does not match returns
\* a falsy result and leaves the stored params and path of the layer exactly
\* as they were before the call.
\* A path does not match when the regexp of the layer does not match it; the
\* layer / with end false of the Layer with fast_slash matches without its
\* regexp.
C36_NoMatchLeavesFields_AsStated ==
    \A i \in DOMAIN sLayer.log :
        (/\ sLayer.log[i].path # <<>>
         /\ ~Exec(sLayer.regexp, sLayer.log[i].path).ok
         /\ ~(sLayer.kind = "fast" /\ sLayer.pattern = <<"/">> /\ sLayer.options.end = FALSE)) =>
            /\ sLayer.log[i].result = "false"
            /\ sLayer.log[i].after = sLayer.log[i].before

\* the first Layer has matched a path and stored its params, and a call on
\* a path that does not match has set its params and path to undefined
C36_Witness ==
    /\ sLayer.kind = "first"
    /\ Len(sLayer.log) = 2
    /\ sLayer.log[1].result = "true"
    /\ sLayer.log[1].after.params # NoParams
    /\ sLayer.log[2].result = "false"
    /\ sLayer.log[2].before = sLayer.log[1].after
    /\ sLayer.fields = [params |-> UndefinedParams, path |-> UNDEF]

(***************************************************************************)
(* Properties of the prefix parse gives a placeholder                      *)
(***************************************************************************)

\* the character at position j of a pattern is written escaped: it stands
\* right after a backslash that is not escaped itself
RECURSIVE EscapedAt(_, _, _)
EscapedAt(str, i, j) ==
    IF i >= j THEN FALSE
    ELSE IF str[i] = "\\" THEN (i + 1 = j \/ EscapedAt(str, i + 2, j))
    ELSE EscapedAt(str, i + 1, j)

\* the positions of the colons that open a placeholder of a pattern, in order
PlaceholdersOf(str) ==
    LET at == {i \in 1..(Len(str) - 1) :
                 str[i] = ":" /\ str[i + 1] \in WordChars /\ ~EscapedAt(str, 1, i)}
        RECURSIVE InOrder(_, _)
        InOrder(set, i) ==
            IF i > Len(str) THEN <<>>
            ELSE (IF i \in set THEN <<i>> ELSE <<>>) \o InOrder(set, i + 1)
    IN InOrder(at, 1)

\* C37, as stated: a delimiter character standing immediately before a
\* placeholder becomes the prefix of that placeholder and is removed from the
\* literal before it if and only if it was not written escaped in the pattern.
C37_PrefixUnlessEscaped_AsStated ==
    (cOut.done /\ cPattern.kind = "string") =>
        LET str  == cPattern.str
            at   == PlaceholdersOf(str)
            keys == KeysOf(cOut.tokens)
        IN /\ Len(keys) = Len(at)
           /\ \A k \in DOMAIN at :
                 (at[k] > 1 /\ str[at[k] - 1] \in Delimiters) =>
                     (keys[k].prefix = <<str[at[k] - 1]>> <=> ~EscapedAt(str, 1, at[k] - 1))

\* the pattern \a/:u? was parsed: the slash, which is not escaped, stays in
\* the literal a/ and the placeholder has no prefix
C37_Witness ==
    /\ cOut.done
    /\ cPattern = StringPattern(<<"\\", "a", "/", ":", "u", "?">>)
    /\ Len(cOut.tokens) = 2
    /\ cOut.tokens[1] = StrTok(<<"a", "/">>)
    /\ cOut.tokens[2].prefix = <<>>

(***************************************************************************)
(* Properties of the fast path of Layer.match for the pattern /            *)
(***************************************************************************)

\* the layer constructed has fast_slash: it is the function Layer(path,
\* options, handler) with the pattern / and end false
SlashLayer ==
    /\ sLayer.made
    /\ sLayer.kind = "fast"
    /\ sLayer.pattern = <<"/">>
    /\ sLayer.options.end = FALSE

\* C38, as stated: a layer whose pattern is exactly / with end false matches
\* every path and assigns no params.
C38_SlashMatchesEveryPath_AsStated ==
    SlashLayer =>
        \A i \in DOMAIN sLayer.log :
            /\ sLayer.log[i].result = "true"
            /\ sLayer.log[i].after.params = NoParams

\* C38, amended: a layer whose pattern is exactly / with end false matches
\* every path that is not empty, with no params and the empty string as the
\* part matched; the empty path it does not match, and the call leaves the
\* stored params and path alone.
C38_SlashMatchesEveryPathButEmpty ==
    SlashLayer =>
        \A i \in DOMAIN sLayer.log :
            IF sLayer.log[i].path = <<>>
            THEN /\ sLayer.log[i].result = "false"
                 /\ sLayer.log[i].after = sLayer.log[i].before
            ELSE /\ sLayer.log[i].result = "true"
                 /\ sLayer.log[i].after = [params |-> NoParams, path |-> <<>>]

\* the layer / with end false has matched the path a, which its regexp does
\* not match, and has not matched the empty path
C38_Witness ==
    /\ SlashLayer
    /\ Len(sLayer.log) = 2
    /\ sLayer.log[1].path = <<"a">>
    /\ ~Exec(sLayer.regexp, <<"a">>).ok
    /\ sLayer.log[1].result = "true"
    /\ sLayer.log[2].path = <<>>
    /\ sLayer.log[2].result = "false"

(***************************************************************************)
(* Properties of route.methods                                             *)
(***************************************************************************)

\* the names a layer of the stack was registered under
RegisteredNames == {rMethods.names[i] : i \in DOMAIN rMethods.names}

\* C39, as stated: after any sequence of registrations on a route, a phase
\* name is recorded in route.methods if and only if the stack of the route
\* contains at least one layer registered under that name.
C39_MethodsAreRegisteredNames_AsStated ==
    /\ Len(rMethods.names) = Len(rStack)
    /\ rMethods.recorded = RegisteredNames

\* C39, amended: a key is recorded in route.methods if and only if the stack
\* contains at least one layer registered under a name that has this key: the
\* name in lower case in the Route that dispatches with next, the name
\* itself in the Route that dispatches with reduce.
C39_MethodsAreKeysOfRegisteredNames ==
    /\ Len(rMethods.names) = Len(rStack)
    /\ rMethods.recorded =
          {IF rReduce THEN name ELSE toLowerCase(name) : name \in RegisteredNames}
    /\ \A i \in DOMAIN rStack :
          rStack[i].name = IF rReduce THEN rMethods.names[i] ELSE toLowerCase(rMethods.names[i])

\* route.layer('onLoad', fn) and route.layer('before', fn) were called on
\* the Route that dispatches with next: methods has onload and before
C39_Witness ==
    /\ ~rReduce
    /\ rMethods.names = <<"onLoad", "before">>
    /\ rMethods.recorded = {"onload", "before"}
    /\ Len(rStack) = 2

(***************************************************************************)
(* Properties of mergeParams                                               *)
(***************************************************************************)

\* C40, as stated: with mergeParams enabled, merging the params of a layer
\* with the params of the parent router yields a new object and leaves the
\* params object of the parent and that of the layer unchanged, so that after
\* the nested dispatch returns the parent sees exactly the params it had
\* before.
C40_MergeLeavesArguments_AsStated ==
    (kMerge.pc \in {"merged", "returned"} /\ kMerge.parent # UndefinedParams) =>
        /\ kMerge.out.is = "new"
        /\ kMerge.out.params = kMerge.params
        /\ kMerge.out.parent = kMerge.parent
        /\ kMerge.pc = "returned" => kMerge.seen = kMerge.parent

\* the layer captured 0 and 1, the parent had captured 0: the merge ending
\* with mixin(parent, params) has moved the captures of the layer to 1 and 2
\* and set them on the object of the parent, which the parent sees after the
\* nested dispatch has returned
C40_Witness ==
    /\ kMerge.pc = "returned"
    /\ kMerge.version = "mixin"
    /\ kMerge.parent = Put(NoParams, Ordinal(0), <<"a">>)
    /\ kMerge.params = Put(Put(NoParams, Ordinal(0), <<"b">>), Ordinal(1), <<"c">>)
    /\ kMerge.out.params = Put(Put(NoParams, Ordinal(1), <<"b">>), Ordinal(2), <<"c">>)
    /\ kMerge.seen = Put(Put(Put(NoParams, Ordinal(0), <<"a">>), Ordinal(1), <<"b">>), Ordinal(2), <<"c">>)


=============================================================================
